---- MODULE Spec2Model ----
(***************************************************************************)
(* A model of the relation-aware retrieval core of the Zorgwaard knowledge *)
(* base.  The repository holds several generations of the same program     *)
(* side by side; the model keeps them apart by name:                       *)
(*                                                                         *)
(*   - the relational store (notes, embeddings, note_relations) with the   *)
(*     operations of src/services/note_service.py and                      *)
(*     src/services/relation_service.py, and the older operations of       *)
(*     src/OLD/db-OLD.py on the same tables (suffix _OLD);                 *)
(*   - the context assemblers answer_from_context of src/OLD/llm-OLD.py    *)
(*     (suffix _OLD), src/infrastructure/llm.py (suffix _infra) and        *)
(*     src/infrastructure/llm/answering.py (no suffix);                    *)
(*   - the vector index of src/infrastructure/db.py with its               *)
(*     _RelatedExpander (specification SpecVec);                           *)
(*   - the keyword selector _mmr (specification SpecMmr);                  *)
(*   - the summarising calls of the llm modules (specification SpecLlm);   *)
(*   - the migration runner of src/infrastructure/migrations/runner.py     *)
(*     (specification SpecMig).                                            *)
(*                                                                         *)
(* Spec runs the operations on the relational store from an empty store;   *)
(* SpecEnt adds entities and the entity filter, SpecStore the deletion of  *)
(* notes, SpecRel relation types outside the vocabulary; SpecExp and       *)
(* SpecPool start from a filled store; SpecDoc renders single entries.     *)
(*                                                                         *)
(* Note ids and relation ids are uuid4 values in the source; the model     *)
(* draws them from 1..MaxNotes and 1..MaxRelations and always takes the    *)
(* least unused one.  Their order as integers stands for the order of the  *)
(* uuid strings.  Cosine distances are integers 0..2 (the range of a       *)
(* cosine distance), so a score 1 - distance is an integer in -1..1.       *)
(***************************************************************************)
EXTENDS Integers, Sequences, FiniteSets, TLC

\* ------------------------------------------------------------------ bounds
MaxNotes == 2
MaxRelations == 2
MaxNewRelations == 2
MaxLimit == 2
MaxQuery == 2
MaxVectors == 3
MaxDown == 1
MaxCandidates == 3
MaxEntities == 2
MaxExtracted == 2
MaxChunks == 2
MaxFailing == 1
MaxGraph == 3
MaxPool == 5
MaxFiles == 3
MaxStatements == 2

\* --------------------------------------------------------------- constants
None == "None"
\* Optional values: Python None is the empty sequence, a value x is <<x>>.
NoVal == <<>>
Some(x) == <<x>>

NoteIds == 1..MaxNotes
RelIds == 1..MaxRelations
MalformedId == 0
EmbVals == 0..1
Embeddings == {Some(e) : e \in EmbVals}
Queries == {Some(q) : q \in 0..MaxQuery}

STATUSES == {"draft", "published", "archived"}
RELATION_TYPES == {"related", "supports", "contradicts", "supersedes", "duplicate"}
SEARCH_RELATED_TYPES == {"supports", "contradicts", "related"}
DefaultRelatedLimit == 3

\* --------------------------------------------------------------- variables
VARIABLES
    notes,       \* ids of the rows of table notes
    status,      \* Note.status of every id (None while the id is unused)
    embedding,   \* Embedding.embedding of every id (NoVal: no embeddings row)
    relations,   \* rows of note_relations: [id, source_note_id, target_note_id, relation_type]
    lastOp,      \* the last operation: its name, its arguments and how it ended
    matches,     \* the list the last search returned
    payload,     \* the match list handed to answer_from_context
    sources,     \* the source entries answer_from_context rendered, in order
    id_lookup,   \* the id -> citation number lookup of answer_from_context
    entities,    \* rows of table entities: [id, entity_type, canonical_value]
    note_entities, \* rows of note_entities: [note_id, entity_id]
    tags,        \* the names of the rows of table tags
    note_tags,   \* rows of note_tags: [note_id, tag]
    index,       \* the vector index: entry id -> [emb, related_to, supersedes, superseded_by]
    mmr,         \* the run of _mmr: its inputs, chosen and candidates
    migrations   \* the sql directory, table schema_migrations, the committed statements

vars == <<notes, status, embedding, relations, lastOp, matches, payload, sources, id_lookup,
          entities, note_entities, tags, note_tags, index, mmr, migrations>>
catalog == <<entities, note_entities, tags, note_tags>>
store == <<notes, status, embedding, relations, catalog>>
answer == <<matches, payload, sources, id_lookup>>

\* ----------------------------------------------------------------- helpers
Min(a, b) == IF a <= b THEN a ELSE b
Max(a, b) == IF a >= b THEN a ELSE b
Range(s) == {s[i] : i \in 1..Len(s)}
Least(S) == CHOOSE x \in S : \A y \in S : x <= y

\* All orderings of a finite set, as sequences without repetition.
Perms(S) ==
    {f \in [1..Cardinality(S) -> S] : \A i, j \in 1..Cardinality(S) : i # j => f[i] # f[j]}

\* sorted(set(...)) of a set of ids.
RECURSIVE SortedSeq(_)
SortedSeq(S) == IF S = {} THEN <<>> ELSE <<Least(S)>> \o SortedSeq(S \ {Least(S)})

\* Sequences over S of length 0..n.
SeqsUpTo(S, n) == UNION {[1..k -> S] : k \in 0..n}

\* ------------------------------------------------------------- the tables
\* UniqueConstraint(source_note_id, target_note_id), CheckConstraint(source <> target)
\* and the two foreign keys of note_relations: what the database accepts as a new row.
RelationInsertOk_NoUnique(rels, existing, s, t) ==
    /\ s # t
    /\ s \in existing
    /\ t \in existing

RelationInsertOk(rels, existing, s, t) ==
    /\ s # t
    /\ \A r \in rels : ~(r.source_note_id = s /\ r.target_note_id = t)
    /\ s \in existing
    /\ t \in existing

FreshNoteId == Least(NoteIds \ notes)
FreshRelId(rels) == Least(RelIds \ {r.id : r \in rels})

NoAnswer == /\ matches' = <<>>
            /\ payload' = <<>>
            /\ sources' = <<>>
            /\ id_lookup' = <<>>

\* No _mmr call is in progress.
NoRun == [pc |-> "idle"]

\* No sql directory, no table schema_migrations, nothing executed.
NoMigrations == [sql |-> <<>>, schema_migrations |-> {}, executed |-> <<>>]

Init ==
    /\ notes = {}
    /\ status = [n \in NoteIds |-> None]
    /\ embedding = [n \in NoteIds |-> NoVal]
    /\ relations = {}
    /\ lastOp = [op |-> "init", ok |-> TRUE]
    /\ matches = <<>>
    /\ payload = <<>>
    /\ sources = <<>>
    /\ id_lookup = <<>>
    /\ entities = {}
    /\ note_entities = {}
    /\ tags = {}
    /\ note_tags = {}
    /\ index = <<>>
    /\ migrations = NoMigrations
    /\ mmr = NoRun

\* ------------------------------------------- services/note_service.create_note
\* The extracted entities a note is created with: dicts of entity_type and
\* canonical_value (value is taken to be the same text).  "Knox" and "knox" differ
\* in case only.
EntTypes == {"app", "rol"}
EntValues == {"knox", "Knox", "ons"}
EntityDicts == [entity_type : EntTypes, canonical_value : EntValues]
EntityIds == 1..MaxEntities
TagNames == {"beleid"}
FreshEntityId(tbl) == Least(EntityIds \ {e.id : e \in tbl})

\* str.lower() on the values of EntValues.
lower(v) == IF v = "Knox" THEN "knox" ELSE v

\* "for ent in entities": the entity with the same canonical_value and entity_type
\* is looked up, created when there is none, and linked to the note.  The links
\* reach the database at commit, where a second link of the note to the same
\* entity violates pk_note_entity.
RECURSIVE link_entities(_, _, _, _)
link_entities(tbl, links, note, ents) ==
    IF ents = <<>> THEN [entities |-> tbl, links |-> links, ok |-> TRUE]
    ELSE LET ent == ents[1]
             same(e) == /\ e.canonical_value = ent.canonical_value
                        /\ e.entity_type = ent.entity_type
             tbl2 == IF \E e \in tbl : same(e) THEN tbl
                     ELSE tbl \cup {[id |-> FreshEntityId(tbl),
                                     entity_type |-> ent.entity_type,
                                     canonical_value |-> ent.canonical_value]}
             entity == CHOOSE e \in tbl2 : same(e)
             link == [note_id |-> note, entity_id |-> entity.id]
         IN IF link \in links THEN [entities |-> tbl, links |-> links, ok |-> FALSE]
            ELSE link_entities(tbl2, links \cup {link}, note, Tail(ents))

create_note(st, emb, ents, tag_names) ==
    /\ Cardinality(notes) < MaxNotes
    /\ Cardinality(entities) + Len(ents) <= MaxEntities
    /\ LET linked == link_entities(entities, note_entities, FreshNoteId, ents) IN
       IF linked.ok
       THEN /\ notes' = notes \cup {FreshNoteId}
            /\ status' = [status EXCEPT ![FreshNoteId] = st]
            /\ embedding' = [embedding EXCEPT ![FreshNoteId] = emb]
            /\ entities' = linked.entities
            /\ note_entities' = linked.links
            /\ tags' = tags \cup tag_names
            /\ note_tags' = note_tags \cup {[note_id |-> FreshNoteId, tag |-> t] : t \in tag_names}
            /\ lastOp' = [op |-> "create_note", ok |-> TRUE, ents |-> ents]
       ELSE \* db.commit() raises IntegrityError; nothing is written
            /\ UNCHANGED <<notes, status, embedding, catalog>>
            /\ lastOp' = [op |-> "create_note", ok |-> FALSE, ents |-> ents]
    /\ UNCHANGED <<relations, index, mmr, migrations>>
    /\ NoAnswer

\* --------------------------------------- services/note_service.delete_note
\* ForeignKey("notes.id", ondelete="CASCADE") on both ends of a relation: the
\* database removes the rows that have the deleted note as source or as target.
on_delete_cascade_SourceOnly(rels, nid) ==
    {r \in rels : r.source_note_id # nid}

on_delete_cascade(rels, nid) ==
    {r \in rels : r.source_note_id # nid /\ r.target_note_id # nid}

\* The rows that hang on a note: its embedding, its links and its relations.
has_dependents(nid) ==
    \/ embedding[nid] # NoVal
    \/ \E l \in note_entities : l.note_id = nid
    \/ \E l \in note_tags : l.note_id = nid
    \/ \E r \in relations : r.source_note_id = nid \/ r.target_note_id = nid

\* db.delete(note); db.commit().  The relationships of Note carry neither a delete
\* cascade nor passive_deletes, so for a note with dependents the session first
\* de-associates them, which the mapper or the database may refuse (primary-key
\* and NOT NULL columns): the call raises and nothing changes.  Where the rows are
\* left to the database, ON DELETE CASCADE removes them with the note.
delete_note(nid, refused) ==
    /\ IF nid = MalformedId \/ nid \notin notes
       THEN \* ValueError("Ongeldig note_id") / ValueError("Notitie niet gevonden")
            /\ UNCHANGED <<notes, status, embedding, relations, note_entities, note_tags>>
            /\ lastOp' = [op |-> "delete_note", ok |-> FALSE, raised |-> "ValueError",
                          malformed |-> nid = MalformedId,
                          calls |-> IF nid = MalformedId THEN {} ELSE {"query"}]
       ELSE IF refused /\ has_dependents(nid)
       THEN /\ UNCHANGED <<notes, status, embedding, relations, note_entities, note_tags>>
            /\ lastOp' = [op |-> "delete_note", ok |-> FALSE, raised |-> "IntegrityError",
                          malformed |-> FALSE, calls |-> {"query", "write"}]
       ELSE /\ notes' = notes \ {nid}
            /\ status' = [status EXCEPT ![nid] = None]
            /\ embedding' = [embedding EXCEPT ![nid] = NoVal]
            /\ relations' = on_delete_cascade(relations, nid)
            /\ note_entities' = {l \in note_entities : l.note_id # nid}
            /\ note_tags' = {l \in note_tags : l.note_id # nid}
            /\ lastOp' = [op |-> "delete_note", ok |-> TRUE, raised |-> None,
                          malformed |-> FALSE, calls |-> {"query", "write"}]
    /\ UNCHANGED <<entities, tags, index, mmr, migrations>>
    /\ NoAnswer

\* ----------------------------------- services/relation_service.create_relation
create_relation(s, t, ty) ==
    /\ Cardinality(relations) < MaxRelations
    /\ IF RelationInsertOk(relations, notes, s, t)
       THEN /\ relations' = relations \cup
                   {[id |-> FreshRelId(relations), source_note_id |-> s,
                     target_note_id |-> t, relation_type |-> ty]}
            /\ lastOp' = [op |-> "create_relation", ok |-> TRUE]
       ELSE \* db.commit() raises IntegrityError; nothing is written
            /\ relations' = relations
            /\ lastOp' = [op |-> "create_relation", ok |-> FALSE]
    /\ UNCHANGED <<notes, status, embedding, catalog, index, mmr, migrations>>
    /\ NoAnswer

\* ------------------------------ services/relation_service.update_relation_type
\* An id that is empty or does not parse as a uuid stands as MalformedId.
update_relation_type(rid, ty) ==
    /\ IF rid = MalformedId
       THEN \* ValueError("relation_id is verplicht") / ValueError("Ongeldige relation_id")
            /\ relations' = relations
            /\ lastOp' = [op |-> "update_relation_type", ok |-> FALSE, malformed |-> rid = MalformedId,
                          raised |-> "ValueError", calls |-> {}]
       ELSE IF \E r \in relations : r.id = rid
       THEN /\ relations' = {IF r.id = rid THEN [r EXCEPT !.relation_type = ty] ELSE r
                             : r \in relations}
            /\ lastOp' = [op |-> "update_relation_type", ok |-> TRUE, malformed |-> rid = MalformedId,
                          raised |-> None, calls |-> {"query", "write"}]
       ELSE \* ValueError("Relatie niet gevonden")
            /\ relations' = relations
            /\ lastOp' = [op |-> "update_relation_type", ok |-> FALSE, malformed |-> rid = MalformedId,
                          raised |-> "ValueError", calls |-> {"query"}]
    /\ UNCHANGED <<notes, status, embedding, catalog, index, mmr, migrations>>
    /\ NoAnswer

\* ----------------------------------- services/relation_service.delete_relation
delete_relation(rid) ==
    /\ IF rid = MalformedId
       THEN /\ relations' = relations
            /\ lastOp' = [op |-> "delete_relation", ok |-> FALSE, malformed |-> rid = MalformedId,
                          raised |-> "ValueError", calls |-> {}]
       ELSE IF \E r \in relations : r.id = rid
       THEN /\ relations' = {r \in relations : r.id # rid}
            /\ lastOp' = [op |-> "delete_relation", ok |-> TRUE, malformed |-> rid = MalformedId,
                          raised |-> None, calls |-> {"query", "write"}]
       ELSE /\ relations' = relations
            /\ lastOp' = [op |-> "delete_relation", ok |-> FALSE, malformed |-> rid = MalformedId,
                          raised |-> "ValueError", calls |-> {"query"}]
    /\ UNCHANGED <<notes, status, embedding, catalog, index, mmr, migrations>>
    /\ NoAnswer

\* ------------------------------------------------------ OLD/db-OLD.create_note
\* The rows "for relation_type, target_id in relations" appends for the new note.
RECURSIVE AppendRelations(_, _, _)
AppendRelations(rels, src, entries) ==
    IF entries = <<>> THEN rels
    ELSE AppendRelations(
             rels \cup {[id |-> FreshRelId(rels), source_note_id |-> src,
                         target_note_id |-> entries[1][2], relation_type |-> entries[1][1]]},
             src, Tail(entries))

\* Every row of the transaction passes the constraints of note_relations.
RECURSIVE RelationsInsertOk(_, _, _, _)
RelationsInsertOk(rels, existing, src, entries) ==
    IF entries = <<>> THEN TRUE
    ELSE /\ RelationInsertOk(rels, existing, src, entries[1][2])
         /\ RelationsInsertOk(AppendRelations(rels, src, <<entries[1]>>), existing, src,
                              Tail(entries))

\* update(Note).where(Note.id == target_id).values(status="archived") for every
\* supersedes entry.
ArchiveSuperseded(st, entries) ==
    [n \in NoteIds |->
        IF \E i \in 1..Len(entries) : entries[i][1] = "supersedes" /\ entries[i][2] = n
        THEN "archived" ELSE st[n]]

\* The session of get_session() is one transaction: a constraint violation at
\* flush leaves the tables as they were.
\* OLD/db-OLD.ensure_entities: the canonical values are lower-cased, and a row is
\* created for every one of them that existing_map, keyed by the lower-cased
\* canonical value alone, does not hold.
RECURSIVE ensure_rows(_, _)
ensure_rows(tbl, normalized) ==
    IF normalized = <<>> THEN tbl
    ELSE LET canonical == lower(normalized[1].canonical_value) IN
         IF \E e \in tbl : lower(e.canonical_value) = canonical
         THEN ensure_rows(tbl, Tail(normalized))
         ELSE ensure_rows(tbl \cup {[id |-> FreshEntityId(tbl),
                                     entity_type |-> normalized[1].entity_type,
                                     canonical_value |-> canonical]},
                          Tail(normalized))

ensure_entities(ents) ==
    /\ ents # <<>>
    /\ Cardinality(entities) + Len(ents) <= MaxEntities
    /\ entities' = ensure_rows(entities, ents)
    /\ lastOp' = [op |-> "ensure_entities", ok |-> TRUE, ents |-> ents]
    /\ UNCHANGED <<notes, status, embedding, relations, note_entities, tags, note_tags,
                   index, mmr, migrations>>
    /\ NoAnswer

create_note_OLD(st, emb, entries, entity_ids, tag_names) ==
    /\ Cardinality(notes) < MaxNotes
    /\ Cardinality(relations) + Len(entries) <= MaxRelations
    /\ LET new == FreshNoteId IN
       IF RelationsInsertOk(relations, notes \cup {new}, new, entries)
       THEN /\ notes' = notes \cup {new}
            /\ status' = ArchiveSuperseded([status EXCEPT ![new] = st], entries)
            /\ embedding' = [embedding EXCEPT ![new] = emb]
            /\ relations' = AppendRelations(relations, new, entries)
            \* select(Entity).where(Entity.id.in_(entity_ids)): one link per row found
            /\ note_entities' = note_entities \cup
                    {[note_id |-> new, entity_id |-> e.id] :
                        e \in {x \in entities : x.id \in entity_ids}}
            /\ tags' = tags \cup tag_names
            /\ note_tags' = note_tags \cup {[note_id |-> new, tag |-> t] : t \in tag_names}
            /\ lastOp' = [op |-> "create_note_OLD", ok |-> TRUE]
       ELSE /\ UNCHANGED <<notes, status, embedding, relations, note_entities, tags,
                           note_tags>>
            /\ lastOp' = [op |-> "create_note_OLD", ok |-> FALSE]
    /\ UNCHANGED <<entities, index, mmr, migrations>>
    /\ NoAnswer

\* --------------------------------------------------- infrastructure/llm
\* The provider calls of one request either return or raise.  embed_text and
\* llm_chat of llm_utils.py (and of src/llm.py and infrastructure/llm.py) catch the
\* exception: no embedding, or the empty answer.  A blank text gets no embedding.
embed_text(blank, emb, embed_down) ==
    IF blank \/ embed_down THEN NoVal ELSE emb

llm_chat(chat_down) == IF chat_down THEN "" ELSE "answer"

\* llm_utils.llm_chat_structured: the parsed object, or None.
llm_chat_structured(chat_down) == IF chat_down THEN None ELSE "parsed"

\* ------------------------------------------------------------------ search
\* Embedding.embedding.cosine_distance(query): a distance in 0..2.
cosine_distance(e, q) == IF e[1] >= q[1] THEN e[1] - q[1] ELSE q[1] - e[1]

\* ORDER BY distance LIMIT k over the candidate set: every order the database may
\* return (rows at equal distance come in any order), cut to k rows.
OrderedRows(cands, q, k) ==
    {SubSeq(p, 1, Min(k, Len(p))) :
        p \in {o \in Perms(cands) :
                 \A i \in 1..(Len(o) - 1) :
                    cosine_distance(embedding[o[i]], q) <= cosine_distance(embedding[o[i + 1]], q)}}

\* ------------------------- services/note_service.search_notes_by_similarity
\* .join(Embedding).filter(Note.status == "published")
Candidates_AnyStatus == {n \in notes : embedding[n] # NoVal}

Candidates == {n \in notes : embedding[n] # NoVal /\ status[n] = "published"}

\* The entity filter of the loop over the rows: with a type, the note needs a link
\* to an entity of that type; with values too, the lower-cased canonical values of
\* those entities must hold every lower-cased requested value.
passes_entity_filter(n, entity_type, entity_values) ==
    LET relevant_links == {e \in entities :
                              /\ [note_id |-> n, entity_id |-> e.id] \in note_entities
                              /\ e.entity_type = entity_type}
        normalized_values == {lower(v) : v \in entity_values}
        note_values == {lower(e.canonical_value) : e \in relevant_links}
    IN entity_type # None =>
          /\ relevant_links # {}
          /\ normalized_values # {} => normalized_values \subseteq note_values

\* The returned NoteSearchResult list: every list the query may return.  The filter
\* is applied to the max_candidates rows the query returned.
search_notes_by_similarity(q, limit, entity_type, entity_values) ==
    IF q = NoVal THEN {<<>>}
    ELSE {LET keep(n) == passes_entity_filter(n, entity_type, entity_values)
              kept == SelectSeq(rows, keep)
          IN [i \in 1..Min(limit, Len(kept)) |->
              [id |-> kept[i],
               status |-> status[kept[i]],
               score |-> Some(1 - cosine_distance(embedding[kept[i]], q)),
               relation |-> None]] :
            rows \in OrderedRows(Candidates, q, Max(limit * 4, limit))}

\* services/relation_service.list_relations_for_notes: the rows that touch note_ids.
list_relations_for_notes(note_ids) ==
    {r \in relations : r.source_note_id \in note_ids \/ r.target_note_id \in note_ids}

\* services/note_service._build_relation_metadata: the relation entries of note n.
\* The order of the entries is the order of the rows the query returned, which the
\* database leaves open; the entries are kept as a set.
build_relation_metadata(note_ids, n) ==
    {[relation_type |-> r.relation_type, direction |-> "outgoing",
      other_id |-> r.target_note_id] :
        r \in {x \in list_relations_for_notes(note_ids) :
                 x.relation_type \in RELATION_TYPES /\ x.source_note_id = n}}
    \cup
    {[relation_type |-> r.relation_type, direction |-> "incoming",
      other_id |-> r.source_note_id] :
        r \in {x \in list_relations_for_notes(note_ids) :
                 x.relation_type \in RELATION_TYPES /\ x.target_note_id = n}}

\* services/note_service.search_question_matches: the match dicts for the assembler.
search_question_matches(raw_results) ==
    LET note_ids == {raw_results[i].id : i \in 1..Len(raw_results)} IN
    [i \in 1..Len(raw_results) |->
        [id |-> raw_results[i].id,
         score |-> raw_results[i].score,
         relation |-> None,
         metadata |-> [status |-> raw_results[i].status,
                       relations |-> build_relation_metadata(note_ids, raw_results[i].id)]]]

\* ------------------------------- id -> citation number (all three assemblers)
\* {match.get("id"): idx + 1 for idx, match in enumerate(matches)}: a dict
\* comprehension, so a later entry with the same id replaces the earlier one.
MatchIds(ms) == {ms[i].id : i \in 1..Len(ms)}

IdLookup(ms) ==
    [x \in MatchIds(ms) |-> CHOOSE i \in 1..Len(ms) :
        ms[i].id = x /\ \A j \in 1..Len(ms) : ms[j].id = x => j <= i]

\* A citation "[n]" is <<n>>; the placeholder "[?]" is <<>>.
Cite(n) == <<n>>
Placeholder == <<>>

\* ------------------------- infrastructure/llm/answering.answer_from_context
\* format_doc: the header number and one line per relation entry whose other note
\* is in id_lookup; an entry whose other note is not in the list renders nothing.
format_doc(idx, match, lookup) ==
    [num |-> idx,
     id |-> match.id,
     status |-> None,
     via |-> None,
     clauses |-> {[key |-> e.relation_type, direction |-> e.direction,
                   other_id |-> e.other_id, ref |-> Cite(lookup[e.other_id])] :
                    e \in {x \in match.metadata.relations : x.other_id \in DOMAIN lookup}}]

answer_from_context(ms) == [i \in 1..Len(ms) |-> format_doc(i, ms[i], IdLookup(ms))]

\* ui/search_tab.render, "if search_clicked": search_question_matches, then
\* answer_from_context when there are matches.
\* blank: the question is empty after strip(); q: what embed_text gives for it.
\* render tests the blank question itself and search_question_matches tests it
\* again (ValueError); both end before embed_text.  lastOp keeps the exception that
\* ended the search, whether the question got an embedding, and the external calls
\* made: "embed" (embedding provider), "query" (database), "chat" (chat provider).
search_tab_render(blank, q, chat_down, limit, entity_type, entity_values) ==
    /\ IF blank
       THEN \* ValueError("Vul een vraag in om te zoeken.")
            /\ NoAnswer
            /\ lastOp' = [op |-> "search_tab_render", ok |-> FALSE, raised |-> "ValueError",
                          calls |-> {}, blank |-> blank, embedded |-> q # NoVal,
                          answer |-> None,
                          entity_type |-> entity_type, entity_values |-> entity_values]
       ELSE IF q = NoVal
       THEN \* RuntimeError("Kon geen embedding maken voor deze vraag.")
            /\ NoAnswer
            /\ lastOp' = [op |-> "search_tab_render", ok |-> FALSE, raised |-> "RuntimeError",
                          calls |-> {"embed"}, blank |-> blank, embedded |-> q # NoVal,
                          answer |-> None,
                          entity_type |-> entity_type, entity_values |-> entity_values]
       ELSE \E raw \in search_notes_by_similarity(q, limit, entity_type, entity_values) :
            /\ matches' = raw
            /\ payload' = search_question_matches(raw)
            /\ sources' = answer_from_context(payload')
            /\ id_lookup' = IdLookup(payload')
            /\ lastOp' = [op |-> "search_tab_render", ok |-> TRUE, raised |-> None,
                          calls |-> {"embed", "query"}
                                      \cup (IF raw = <<>> THEN {} ELSE {"chat"}),
                          blank |-> blank, embedded |-> q # NoVal,
                          answer |-> IF raw = <<>> THEN None ELSE llm_chat(chat_down),
                          entity_type |-> entity_type, entity_values |-> entity_values]
    /\ UNCHANGED <<store, index, mmr, migrations>>

\* ------------------------------- services/relation_service.suggest_relations
\* The notes nearest to an embedding, whatever their status; the rows are read and
\* nothing is written.
Embedded == {n \in notes : embedding[n] # NoVal}

suggest_relations_Storing(q, limit) ==
    /\ Cardinality(relations) < MaxRelations
    /\ \E rows \in OrderedRows(Embedded, q, limit) :
          /\ matches' = [i \in 1..Len(rows) |->
                            [id |-> rows[i], status |-> status[rows[i]],
                             score |-> Some(1 - cosine_distance(embedding[rows[i]], q)),
                             relation |-> None]]
          /\ relations' = relations \cup
                {[id |-> FreshRelId(relations), source_note_id |-> rows[i],
                  target_note_id |-> rows[i], relation_type |-> "related"] :
                    i \in 1..Min(1, Len(rows))}
    /\ payload' = <<>>
    /\ sources' = <<>>
    /\ id_lookup' = <<>>
    /\ lastOp' = [op |-> "suggest_relations", ok |-> TRUE]
    /\ UNCHANGED <<notes, status, embedding, catalog, index, mmr, migrations>>

suggest_relations(q, limit) ==
    /\ \E rows \in OrderedRows(Embedded, q, limit) :
          matches' = [i \in 1..Len(rows) |->
                         [id |-> rows[i], status |-> status[rows[i]],
                          score |-> Some(1 - cosine_distance(embedding[rows[i]], q)),
                          relation |-> None]]
    /\ payload' = <<>>
    /\ sources' = <<>>
    /\ id_lookup' = <<>>
    /\ lastOp' = [op |-> "suggest_relations", ok |-> TRUE]
    /\ UNCHANGED <<store, index, mmr, migrations>>

\* ------------------------------------------------ OLD/db-OLD._load_relations
RelKeys == RELATION_TYPES \cup {"superseded_by"}

\* relations.get(n, {}) of the map _load_relations(session, note_ids) builds: per
\* relation type the sorted, de-duplicated targets of the rows whose source is n, and
\* under "superseded_by" the sources of the supersedes rows that point at n.  Only
\* rows whose source is in note_ids are read.  A key the dict lacks is <<>>.
load_relations(note_ids, n) ==
    LET rows == {r \in relations : r.source_note_id \in note_ids} IN
    [k \in RelKeys |->
        IF k = "superseded_by"
        THEN SortedSeq({r.source_note_id :
                           r \in {x \in rows : x.relation_type = "supersedes"
                                               /\ x.target_note_id = n}})
        ELSE SortedSeq({r.target_note_id :
                           r \in {x \in rows : x.relation_type = k
                                               /\ x.source_note_id = n}})]

\* OLD/db-OLD._distance_to_score
distance_to_score(distance) == Some(Max(0, 1 - distance))

\* --------------------------------------------- OLD/db-OLD.search_similar_notes
\* The outer join on supersedes rows with "sup_alias.id IS NULL", and
\* lower(Note.status) = 'published'.
Superseded(n) ==
    \E r \in relations : r.target_note_id = n /\ r.relation_type = "supersedes"

Candidates_OLD ==
    {n \in notes : embedding[n] # NoVal /\ ~Superseded(n) /\ status[n] = "published"}

\* "for row in notes_map.values(): for rel in row.outbound_relations": the seeds in
\* the order the IN query returned them, each with its rows in load order.  Both
\* orders are the database's; every scan keeps the rows of one seed together.
Scans(seeds) ==
    LET rows == {r \in relations : r.source_note_id \in seeds} IN
    {o \in Perms(rows) :
        \A i, j, k \in 1..Len(o) :
            (i < j /\ j < k /\ o[i].source_note_id = o[k].source_note_id)
                => o[j].source_note_id = o[i].source_note_id}

\* related_ids: target -> relation type, in insertion order; the first type met for
\* a target stays.
RECURSIVE related_ids_LastWins(_, _)
related_ids_LastWins(scan, acc) ==
    IF scan = <<>> THEN acc
    ELSE IF scan[1].relation_type \in SEARCH_RELATED_TYPES
         THEN related_ids_LastWins(
                  Tail(scan),
                  IF \E i \in 1..Len(acc) : acc[i].id = scan[1].target_note_id
                  THEN [i \in 1..Len(acc) |->
                           IF acc[i].id = scan[1].target_note_id
                           THEN [acc[i] EXCEPT !.type = scan[1].relation_type]
                           ELSE acc[i]]
                  ELSE Append(acc, [id |-> scan[1].target_note_id,
                                    type |-> scan[1].relation_type]))
         ELSE related_ids_LastWins(Tail(scan), acc)

RECURSIVE related_ids(_, _)
related_ids(scan, acc) ==
    IF scan = <<>> THEN acc
    ELSE IF /\ scan[1].relation_type \in SEARCH_RELATED_TYPES
            /\ \A i \in 1..Len(acc) : acc[i].id # scan[1].target_note_id
         THEN related_ids(Tail(scan),
                          Append(acc, [id |-> scan[1].target_note_id,
                                       type |-> scan[1].relation_type]))
         ELSE related_ids(Tail(scan), acc)

\* The expanded matches: the keys of related_ids cut to related_limit * len(base_ids)
\* are loaded; every entry of related_ids whose note was loaded is appended.
RECURSIVE SelectSeq2(_, _)
SelectSeq2(sq, keep) ==
    IF sq = <<>> THEN <<>>
    ELSE IF sq[1].id \in keep THEN <<sq[1]>> \o SelectSeq2(Tail(sq), keep)
         ELSE SelectSeq2(Tail(sq), keep)

expanded_matches_NoCap(rel_ids, cap) ==
    LET related_note_ids == {rel_ids[i].id : i \in 1..Len(rel_ids)}
        extra_map == related_note_ids \cap notes
        kept == SelectSeq2(rel_ids, extra_map)
    IN [i \in 1..Len(kept) |->
           [id |-> kept[i].id,
            status |-> status[kept[i].id],
            score |-> NoVal,
            relation |-> kept[i].type,
            relations |-> load_relations(related_note_ids, kept[i].id)]]

expanded_matches(rel_ids, cap) ==
    LET related_note_ids == {rel_ids[i].id : i \in 1..Min(cap, Len(rel_ids))}
        extra_map == related_note_ids \cap notes
        kept == SelectSeq2(rel_ids, extra_map)
    IN [i \in 1..Len(kept) |->
           [id |-> kept[i].id,
            status |-> status[kept[i].id],
            score |-> NoVal,
            relation |-> kept[i].type,
            relations |-> load_relations(related_note_ids, kept[i].id)]]

primary_matches(rows, q) ==
    LET base_ids == Range(rows) IN
    [i \in 1..Len(rows) |->
        [id |-> rows[i],
         status |-> status[rows[i]],
         score |-> distance_to_score(cosine_distance(embedding[rows[i]], q)),
         relation |-> None,
         relations |-> load_relations(base_ids, rows[i])]]

\* "if entity_filter_ids": the statement is joined with note_entities on the ids of
\* the filter, so it yields one row per link of a candidate to any of those
\* entities.  Without a filter there is one row per candidate (entity 0).
JoinedRows_OLD(entity_filter_ids) ==
    IF entity_filter_ids = {} THEN {<<n, 0>> : n \in Candidates_OLD}
    ELSE {<<l.note_id, l.entity_id>> :
             l \in {x \in note_entities : /\ x.note_id \in Candidates_OLD
                                          /\ x.entity_id \in entity_filter_ids}}

\* ORDER BY distance LIMIT top_k over the joined rows; row.Note.id of each.
OrderedJoin_OLD(joined, q, k) ==
    {[i \in 1..Min(k, Len(p)) |-> p[i][1]] :
        p \in {o \in Perms(joined) :
                 \A i \in 1..(Len(o) - 1) :
                    cosine_distance(embedding[o[i][1]], q)
                        <= cosine_distance(embedding[o[i + 1][1]], q)}}

\* Every SearchMatch list the call may return.
search_similar_notes(q, entity_filter_ids, top_k, related_limit) ==
    UNION {
        IF rows = <<>> THEN {<<>>}
        ELSE {primary_matches(rows, q)
                \o expanded_matches(related_ids(scan, <<>>), related_limit * Len(rows)) :
                 scan \in Scans(Range(rows))} :
        rows \in OrderedJoin_OLD(JoinedRows_OLD(entity_filter_ids), q, top_k)}

\* ------------------------------------------ OLD/knowledge-OLD._build_llm_payload
\* metadata[relation_key] = ",".join(targets): the ids are uuid strings, which hold
\* no comma and no blank, so the joined string is kept as the sequence of its ids.
build_llm_payload(ms) ==
    [i \in 1..Len(ms) |->
        [id |-> ms[i].id,
         score |-> IF ms[i].score # NoVal THEN ms[i].score ELSE Some(0),
         relation |-> ms[i].relation,
         metadata |-> [status |-> ms[i].status, rel |-> ms[i].relations]]]

\* ------------------------------------------ OLD/llm-OLD.answer_from_context
\* The keys of relation_templates, in dict order.  The key is "duplicates", while
\* the relation type and the metadata key are "duplicate".
relation_templates ==
    <<"supersedes", "superseded_by", "supports", "contradicts", "related", "duplicates">>

\* map_ids_to_refs(metadata.get(key, "")): split on ",", one ref per id.
map_ids_to_refs(metadata, key, lookup) ==
    IF key \in DOMAIN metadata.rel
    THEN LET raw == metadata.rel[key] IN
         [i \in 1..Len(raw) |->
             IF raw[i] \in DOMAIN lookup THEN Cite(lookup[raw[i]]) ELSE Placeholder]
    ELSE <<>>

\* The status label of format_doc.
status_label_OLD(superseded_by, status_value) ==
    IF superseded_by # <<>> \/ status_value = "archived" THEN "VERVANGEN"
    ELSE IF status_value = "draft" THEN "CONCEPT"
    ELSE "ACTUEEL"

\* The annotations after the status: one clause per template key with refs.
RECURSIVE clauses_OLD(_, _, _)
clauses_OLD(keys, metadata, lookup) ==
    IF keys = <<>> THEN <<>>
    ELSE LET refs == map_ids_to_refs(metadata, keys[1], lookup) IN
         (IF refs = <<>> THEN <<>> ELSE <<[key |-> keys[1], refs |-> refs]>>)
            \o clauses_OLD(Tail(keys), metadata, lookup)

format_doc_OLD(idx, match, lookup) ==
    [num |-> idx,
     id |-> match.id,
     status |-> status_label_OLD(map_ids_to_refs(match.metadata, "superseded_by", lookup),
                                 match.metadata.status),
     via |-> match.relation,
     clauses |-> clauses_OLD(relation_templates, match.metadata, lookup)]

answer_from_context_OLD(ms) ==
    [i \in 1..Len(ms) |-> format_doc_OLD(i, ms[i], IdLookup(ms))]

\* OLD/knowledge-OLD.KnowledgeService.chat
chat_OLD(q, entity_ids, top_k, related_limit) ==
    /\ IF q = NoVal
       THEN \* RuntimeError("Geen embedding gegenereerd")
            /\ NoAnswer
            /\ lastOp' = [op |-> "chat_OLD", ok |-> FALSE, entity_ids |-> entity_ids,
                          related_limit |-> related_limit]
       ELSE \E found \in search_similar_notes(q, entity_ids, top_k, related_limit) :
            /\ matches' = found
            /\ payload' = build_llm_payload(found)
            /\ sources' = answer_from_context_OLD(payload')
            /\ id_lookup' = IdLookup(payload')
            /\ lastOp' = [op |-> "chat_OLD", ok |-> TRUE, entity_ids |-> entity_ids,
                          related_limit |-> related_limit]
    /\ UNCHANGED <<store, index, mmr, migrations>>

RelationEntries == SeqsUpTo(RELATION_TYPES \X NoteIds, MaxNewRelations)

Next ==
    \/ \E st \in STATUSES, emb \in Embeddings \cup {NoVal} : create_note(st, emb, <<>>, {})
    \/ \E st \in STATUSES, emb \in Embeddings, entries \in RelationEntries :
          create_note_OLD(st, emb, entries, {}, {})
    \/ \E s, t \in NoteIds, ty \in RELATION_TYPES : create_relation(s, t, ty)
    \/ \E rid \in RelIds \cup {MalformedId}, ty \in RELATION_TYPES :
          update_relation_type(rid, ty)
    \/ \E rid \in RelIds \cup {MalformedId} : delete_relation(rid)
    \/ \E q \in Queries \cup {NoVal}, limit \in 1..MaxLimit :
          search_tab_render(FALSE, q, FALSE, limit, None, {})
    \/ search_tab_render(TRUE, NoVal, FALSE, MaxLimit, None, {})
    \/ \E q \in Queries \cup {NoVal}, top_k \in 1..MaxLimit :
          chat_OLD(q, {}, top_k, DefaultRelatedLimit)

Spec == Init /\ [][Next]_vars

\* ------------------------------------------------- entities and their filters
\* Notes are created with extracted entities and tags, and searched with an entity
\* filter.  Relations play no part here.
ExtractedEntities == SeqsUpTo(EntityDicts, MaxExtracted)

NextEnt ==
    \/ \E ents \in ExtractedEntities, tag_names \in SUBSET TagNames :
          create_note("published", Some(0), ents, tag_names)
    \/ \E ents \in ExtractedEntities : ensure_entities(ents)
    \/ \E entity_ids \in SUBSET {e.id : e \in entities}, tag_names \in SUBSET TagNames :
          create_note_OLD("published", Some(0), <<>>, entity_ids, tag_names)
    \/ \E q \in {Some(0), NoVal}, entity_type \in EntTypes \cup {None},
          entity_values \in SUBSET {"knox", "ons"} :
          /\ entity_type = None => entity_values = {}
          /\ search_tab_render(FALSE, q, FALSE, MaxLimit, entity_type, entity_values)
    \/ \E q \in {Some(0), NoVal}, entity_ids \in SUBSET {e.id : e \in entities} :
          chat_OLD(q, entity_ids, MaxLimit, DefaultRelatedLimit)

SpecEnt == Init /\ [][NextEnt]_vars

\* ------------------------------------------- the store with all its tables
\* Notes with an entity and a tag, relations between them, the three searches and
\* the deletion of a note.
NextStore ==
    \/ \E st \in {"draft", "published"}, emb \in {Some(0), NoVal},
          ents \in {<<>>, <<[entity_type |-> "app", canonical_value |-> "knox"]>>},
          tag_names \in SUBSET TagNames :
          create_note(st, emb, ents, tag_names)
    \/ \E s, t \in NoteIds, ty \in {"related", "supersedes"} : create_relation(s, t, ty)
    \/ \E entity_type \in {None, "app"} :
          search_tab_render(FALSE, Some(0), FALSE, MaxLimit, entity_type, {})
    \/ \E entity_ids \in SUBSET {e.id : e \in entities} :
          chat_OLD(Some(0), entity_ids, MaxLimit, DefaultRelatedLimit)
    \/ suggest_relations(Some(0), MaxLimit)
    \/ \E nid \in NoteIds \cup {MalformedId}, refused \in BOOLEAN : delete_note(nid, refused)

SpecStore == Init /\ [][NextStore]_vars

\* ------------------------------------------------ expansion over a given graph
\* The older search on a store of MaxGraph published notes with embeddings and up
\* to MaxRelations relations between them, in the order they were created.
GraphIds == 1..MaxGraph
Edges == {e \in GraphIds \X GraphIds \X {"related", "supports", "supersedes"} : e[1] # e[2]}
Graphs ==
    {g \in SeqsUpTo(Edges, MaxRelations) :
        \A i, j \in 1..Len(g) : (g[i][1] = g[j][1] /\ g[i][2] = g[j][2]) => i = j}

InitExp ==
    /\ notes = GraphIds
    /\ status = [n \in GraphIds |-> "published"]
    /\ embedding \in [GraphIds -> Embeddings]
    /\ \E g \in Graphs :
          relations = {[id |-> i, source_note_id |-> g[i][1], target_note_id |-> g[i][2],
                        relation_type |-> g[i][3]] : i \in 1..Len(g)}
    /\ lastOp = [op |-> "init", ok |-> TRUE]
    /\ matches = <<>>
    /\ payload = <<>>
    /\ sources = <<>>
    /\ id_lookup = <<>>
    /\ entities = {}
    /\ note_entities = {}
    /\ tags = {}
    /\ note_tags = {}
    /\ index = <<>>
    /\ migrations = NoMigrations
    /\ mmr = NoRun

NextExp ==
    \E top_k \in 1..MaxLimit, related_limit \in {1, DefaultRelatedLimit} :
        chat_OLD(Some(0), {}, top_k, related_limit)

SpecExp == InitExp /\ [][NextExp]_vars

\* =================================================== the vector index
\* infrastructure/db.py keeps entries in a Pinecone index.  The metadata of an entry
\* holds its links as comma-joined sorted id strings; _split_ids gives the ids back
\* in that order, so a link list is kept as the set of its ids and read in order.
VecIds == 1..MaxVectors
FreshVecId == Least(VecIds \ DOMAIN index)

\* _UpsertOperation._build_metadata: _unique_sorted of the given ids.
build_metadata(emb, supersedes, related_to) ==
    [emb |-> emb, related_to |-> related_to, supersedes |-> supersedes,
     superseded_by |-> {}]

\* _UpsertOperation._update_supersedes_links: every target that can be fetched gets
\* entry_id added to its superseded_by; a target whose fetch raises is skipped.
update_supersedes_links(idx, entry_id, supersedes, down) ==
    [x \in DOMAIN idx |->
        IF x \in supersedes /\ x \notin down /\ x # entry_id
        THEN [idx[x] EXCEPT !.superseded_by = @ \cup {entry_id}]
        ELSE idx[x]]

\* _UpsertOperation._update_related_links: the reverse related_to link.
update_related_links(idx, entry_id, related_to, down) ==
    [x \in DOMAIN idx |->
        IF x \in related_to /\ x \notin down /\ x # entry_id
        THEN [idx[x] EXCEPT !.related_to = @ \cup {entry_id}]
        ELSE idx[x]]

\* VectorStore.upsert_entry with a fresh uuid (KnowledgeService.save_entry passes no
\* entry_id).  down: the ids whose fetch raises in this call.
execute(emb, supersedes, related_to, down) ==
    IF emb = NoVal
    THEN \* "Geen embedding gegenereerd": returns None
         index
    ELSE LET entry_id == FreshVecId
             stored == [x \in DOMAIN index \cup {entry_id} |->
                           IF x = entry_id
                           THEN build_metadata(emb, supersedes, related_to)
                           ELSE index[x]]
         IN update_related_links(
                update_supersedes_links(stored, entry_id, supersedes, down),
                entry_id, related_to, down)

upsert_entry(emb, supersedes, related_to, down) ==
    /\ Cardinality(DOMAIN index) < MaxVectors
    /\ index' = execute(emb, supersedes, related_to, down)
    /\ lastOp' = [op |-> "upsert_entry", ok |-> emb # NoVal]
    /\ NoAnswer
    /\ UNCHANGED <<store, mmr, migrations>>

\* index.query(vector, top_k): the top_k entries by cosine similarity, in every
\* order the index may return entries of equal score.
QueryRows(q, k) ==
    {SubSeq(p, 1, Min(k, Len(p))) :
        p \in {o \in Perms(DOMAIN index) :
                 \A i \in 1..(Len(o) - 1) :
                    cosine_distance(index[o[i]].emb, q) <= cosine_distance(index[o[i + 1]].emb, q)}}

\* One match dict of the response.
vector_match(id, score, relation) ==
    [id |-> id, score |-> score, relation |-> relation,
     metadata |-> [related_to |-> index[id].related_to,
                   supersedes |-> index[id].supersedes,
                   superseded_by |-> index[id].superseded_by]]

\* The relation keys _RelatedExpander.augment reads of every match, in call order.
ExpanderKeys == <<"related_to", "supersedes", "superseded_by">>

\* The (relation, identifier) pairs augment visits, in order: for every match of the
\* response, for every key, the ids of metadata[key].
RECURSIVE Probes(_, _)
Probes(seeds, keys) ==
    IF seeds = <<>> THEN <<>>
    ELSE IF keys = <<>> THEN Probes(Tail(seeds), ExpanderKeys)
    ELSE LET ids == SortedSeq(index[seeds[1]][keys[1]]) IN
         [i \in 1..Len(ids) |-> [relation |-> keys[1], id |-> ids[i]]]
            \o Probes(seeds, Tail(keys))

\* _RelatedExpander._load_relations over the probes: an id in seen_ids is skipped, a
\* fetch that raises is skipped, a fetched entry joins seen_ids and is collected with
\* the relation key and no score.
RECURSIVE load_relations_infra_Abort(_, _, _)
load_relations_infra_Abort(probes, seen_ids, down) ==
    IF probes = <<>> THEN <<>>
    ELSE IF probes[1].id \in down THEN <<>>
    ELSE IF probes[1].id \in seen_ids \/ probes[1].id \notin DOMAIN index
         THEN load_relations_infra_Abort(Tail(probes), seen_ids, down)
         ELSE <<vector_match(probes[1].id, NoVal, probes[1].relation)>>
                 \o load_relations_infra_Abort(Tail(probes), seen_ids \cup {probes[1].id},
                                               down)

RECURSIVE load_relations_infra(_, _, _)
load_relations_infra(probes, seen_ids, down) ==
    IF probes = <<>> THEN <<>>
    ELSE IF probes[1].id \in seen_ids \/ probes[1].id \in down
              \/ probes[1].id \notin DOMAIN index
         THEN load_relations_infra(Tail(probes), seen_ids, down)
         ELSE <<vector_match(probes[1].id, NoVal, probes[1].relation)>>
                 \o load_relations_infra(Tail(probes), seen_ids \cup {probes[1].id}, down)

\* _RelatedExpander.augment
augment(ms, down) ==
    IF ms = <<>> THEN ms
    ELSE ms \o load_relations_infra(
                   Probes([i \in 1..Len(ms) |-> ms[i].id], ExpanderKeys), MatchIds(ms), down)

\* VectorStore.query with expand_related: every response the call may give.
query_index(q, top_k, down) ==
    IF q = NoVal THEN {<<>>}
    ELSE {augment([i \in 1..Len(rows) |->
                      vector_match(rows[i],
                                   Some(1 - cosine_distance(index[rows[i]].emb, q)), None)],
                  down) :
            rows \in QueryRows(q, top_k)}

\* ------------------------------------- infrastructure/llm.answer_from_context
\* map_ids_to_refs(raw): one ref per id of the comma-joined string.
map_ids_to_refs_infra(ids, lookup) ==
    LET raw == SortedSeq(ids) IN
    [i \in 1..Len(raw) |->
        IF raw[i] \in DOMAIN lookup THEN Cite(lookup[raw[i]]) ELSE Placeholder]

\* format_doc: the status is ACTUEEL unless superseded_by has refs; the notes are
\* "vervangt ..." and "vervangen door ...".
format_doc_infra(idx, match, lookup) ==
    LET supersedes == map_ids_to_refs_infra(match.metadata.supersedes, lookup)
        superseded_by == map_ids_to_refs_infra(match.metadata.superseded_by, lookup)
    IN [num |-> idx,
        id |-> match.id,
        status |-> IF superseded_by # <<>> THEN "VEROUDERD" ELSE "ACTUEEL",
        via |-> None,
        clauses |->
            (IF supersedes # <<>> THEN <<[key |-> "supersedes", refs |-> supersedes]>>
             ELSE <<>>)
            \o (IF superseded_by # <<>>
                THEN <<[key |-> "superseded_by", refs |-> superseded_by]>>
                ELSE <<>>)]

answer_from_context_infra(ms) ==
    [i \in 1..Len(ms) |-> format_doc_infra(i, ms[i], IdLookup(ms))]

\* services/knowledge.KnowledgeService.search: query_index, then answer_from_context
\* when there are matches.
knowledge_search(blank, q, chat_down, top_k, down) ==
    /\ IF blank
       THEN \* "if not question: return [], None"
            /\ NoAnswer
            /\ lastOp' = [op |-> "knowledge_search", ok |-> FALSE, raised |-> None,
                          calls |-> {}, blank |-> blank, embedded |-> q # NoVal,
                          answer |-> None]
       ELSE \E found \in query_index(q, top_k, down) :
          /\ matches' = found
          /\ payload' = found
          /\ sources' = answer_from_context_infra(found)
          /\ id_lookup' = IdLookup(found)
          /\ lastOp' = [op |-> "knowledge_search", ok |-> found # <<>>, raised |-> None,
                        calls |-> {"embed"}
                                    \cup (IF q = NoVal THEN {} ELSE {"query"})
                                    \cup (IF found = <<>> THEN {} ELSE {"chat"}),
                        blank |-> blank, embedded |-> q # NoVal,
                        answer |-> IF found = <<>> THEN None ELSE llm_chat(chat_down)]
    /\ UNCHANGED <<store, index, mmr, migrations>>

\* The fetches that raise during one query: at most MaxDown ids.  The fetches of an
\* upsert are taken to succeed.
FetchFailures == {d \in SUBSET DOMAIN index : Cardinality(d) <= MaxDown}

NextVec ==
    \/ \E emb \in Embeddings \cup {NoVal}, supersedes \in SUBSET DOMAIN index,
          related_to \in SUBSET DOMAIN index :
          upsert_entry(emb, supersedes, related_to, {})
    \/ \E q \in Queries \cup {NoVal}, top_k \in 1..MaxLimit, down \in FetchFailures :
          knowledge_search(FALSE, q, FALSE, top_k, down)
    \/ knowledge_search(TRUE, NoVal, FALSE, MaxLimit, {})

SpecVec == Init /\ [][NextVec]_vars

\* ================================================= the keyword selector _mmr
\* _mmr(document_embedding, candidate_embeddings, lambda_, k) of OLD/llm-OLD.py and
\* infrastructure/llm.py (the two are the same text).  Its first statements turn the
\* embeddings into relevance[i] = _cos_sim(document, candidate i); the loop reads
\* _cos_sim(candidate i, candidate j).  The model starts from these cosines: a
\* relevance vector and a symmetric similarity table over CosVals (-1, 0, 1), with
\* lambda_ in tenths, so that ten times the score of the source is the integer
\* lambda_ * relevance - (10 - lambda_) * diversity.  Indices are 0-based as in the
\* source.
CosVals == (-1)..1
Lambdas == {0, 5, 7, 10}
Ks == (-1)..(MaxCandidates + 1)
Pairs(n) == {p \in (0..(n - 1)) \X (0..(n - 1)) : p[1] < p[2]}

\* _cos_sim(candidate_embeddings[i], candidate_embeddings[j])
similarity(sim, i, j) ==
    IF i = j THEN 1 ELSE IF i < j THEN sim[<<i, j>>] ELSE sim[<<j, i>>]

\* int(np.argmax(relevance)): the first index of the maximum.
argmax(relevance) ==
    CHOOSE i \in DOMAIN relevance :
        /\ \A j \in DOMAIN relevance : relevance[j] <= relevance[i]
        /\ \A j \in DOMAIN relevance : relevance[j] = relevance[i] => i <= j

\* max(_cos_sim(candidate, chosen_idx) for chosen_idx in chosen)
diversity(sim, candidate_index, chosen) ==
    CHOOSE d \in {similarity(sim, candidate_index, chosen[c]) : c \in 1..Len(chosen)} :
        \A c \in 1..Len(chosen) : similarity(sim, candidate_index, chosen[c]) <= d

\* score = lambda_ * relevance[candidate_index] - (1 - lambda_) * diversity
mmr_score(relevance, sim, lambda_, candidate_index, chosen) ==
    lambda_ * relevance[candidate_index]
        - (10 - lambda_) * diversity(sim, candidate_index, chosen)

\* max(scores, key=lambda item: item[1])[0]: the first entry of scores, which is in
\* the order of candidates, that has the maximum score.
best_LastMax(relevance, sim, lambda_, candidates, chosen) ==
    LET sc(p) == mmr_score(relevance, sim, lambda_, candidates[p], chosen)
        pos == CHOOSE p \in 1..Len(candidates) :
                  /\ \A r \in 1..Len(candidates) : sc(r) <= sc(p)
                  /\ \A r \in 1..Len(candidates) : sc(r) = sc(p) => r <= p
    IN candidates[pos]

best(relevance, sim, lambda_, candidates, chosen) ==
    LET sc(p) == mmr_score(relevance, sim, lambda_, candidates[p], chosen)
        pos == CHOOSE p \in 1..Len(candidates) :
                  /\ \A r \in 1..Len(candidates) : sc(r) <= sc(p)
                  /\ \A r \in 1..Len(candidates) : sc(r) = sc(p) => p <= r
    IN candidates[pos]

\* candidates.remove(index)
remove(candidates, picked) == SelectSeq(candidates, LAMBDA x : x # picked)

\* "while candidates and len(chosen) < k": one pick per round.
RECURSIVE mmr_loop(_, _, _, _, _, _)
mmr_loop(relevance, sim, lambda_, k, chosen, candidates) ==
    IF candidates = <<>> \/ Len(chosen) >= k THEN chosen
    ELSE LET picked == IF chosen = <<>> THEN argmax(relevance)
                       ELSE best(relevance, sim, lambda_, candidates, chosen)
         IN mmr_loop(relevance, sim, lambda_, k, Append(chosen, picked),
                     remove(candidates, picked))

\* candidates = list(range(len(candidate_embeddings)))
_mmr(relevance, sim, lambda_, k) ==
    LET n == Cardinality(DOMAIN relevance) IN
    mmr_loop(relevance, sim, lambda_, k, <<>>, [p \in 1..n |-> p - 1])

\* The calls the selector is given: every relevance vector and similarity table over
\* 0..MaxCandidates candidates, every lambda_ of Lambdas and every k of Ks.
MmrInputs ==
    UNION {[pc : {"ready"}, relevance : [0..(n - 1) -> CosVals],
            sim : [Pairs(n) -> CosVals], lambda_ : Lambdas, k : Ks,
            first : {NoVal}, second : {NoVal}, first_v1 : {NoVal}] :
              n \in 0..MaxCandidates}

InitMmr ==
    /\ notes = {}
    /\ status = [n \in NoteIds |-> None]
    /\ embedding = [n \in NoteIds |-> NoVal]
    /\ relations = {}
    /\ lastOp = [op |-> "init", ok |-> TRUE]
    /\ matches = <<>>
    /\ payload = <<>>
    /\ sources = <<>>
    /\ id_lookup = <<>>
    /\ entities = {}
    /\ note_entities = {}
    /\ tags = {}
    /\ note_tags = {}
    /\ index = <<>>
    /\ migrations = NoMigrations
    /\ mmr \in MmrInputs

\* A call of _mmr on the inputs.
mmr_call ==
    /\ mmr.pc = "ready"
    /\ mmr' = [mmr EXCEPT !.pc = "called",
                          !.first = Some(_mmr(mmr.relevance, mmr.sim, mmr.lambda_, mmr.k))]
    /\ lastOp' = [op |-> "_mmr", ok |-> TRUE]
    /\ UNCHANGED <<store, index, answer, migrations>>

\* A second call with the same inputs.
mmr_call_again ==
    /\ mmr.pc = "called"
    /\ mmr' = [mmr EXCEPT !.pc = "repeated",
                          !.second = Some(_mmr(mmr.relevance, mmr.sim, mmr.lambda_, mmr.k))]
    /\ lastOp' = [op |-> "_mmr", ok |-> TRUE]
    /\ UNCHANGED <<store, index, answer, migrations>>

\* -------------------------------------------------------- src/llm.py _mmr
\* The first version of the selector.  Its inner loop starts from max_div = 0.0, so
\* the diversity of a candidate is never below 0.
diversity_v1(sim, i, chosen) == Max(0, diversity(sim, i, chosen))

\* lambda_*rel[i] - (1-lambda_)*max_div
mmr_score_v1(rel, sim, lambda_, i, chosen) ==
    lambda_ * rel[i] - (10 - lambda_) * diversity_v1(sim, i, chosen)

\* max(div_scores, key=lambda x: x[1])[0]
best_v1(rel, sim, lambda_, candidates, chosen) ==
    LET sc(p) == mmr_score_v1(rel, sim, lambda_, candidates[p], chosen)
        pos == CHOOSE p \in 1..Len(candidates) :
                  /\ \A r \in 1..Len(candidates) : sc(r) <= sc(p)
                  /\ \A r \in 1..Len(candidates) : sc(r) = sc(p) => p <= r
    IN candidates[pos]

RECURSIVE mmr_loop_v1(_, _, _, _, _, _)
mmr_loop_v1(rel, sim, lambda_, k, chosen, candidates) ==
    IF candidates = <<>> \/ Len(chosen) >= k THEN chosen
    ELSE LET idx == IF chosen = <<>> THEN argmax(rel)
                    ELSE best_v1(rel, sim, lambda_, candidates, chosen)
         IN mmr_loop_v1(rel, sim, lambda_, k, Append(chosen, idx), remove(candidates, idx))

_mmr_v1(rel, sim, lambda_, k) ==
    LET n == Cardinality(DOMAIN rel) IN
    mmr_loop_v1(rel, sim, lambda_, k, <<>>, [p \in 1..n |-> p - 1])

\* A call of the first version on the inputs.
mmr_call_v1 ==
    /\ mmr.pc = "ready"
    /\ mmr' = [mmr EXCEPT !.pc = "called_v1",
                          !.first_v1 = Some(_mmr_v1(mmr.relevance, mmr.sim, mmr.lambda_, mmr.k))]
    /\ lastOp' = [op |-> "_mmr_v1", ok |-> TRUE]
    /\ UNCHANGED <<store, index, answer, migrations>>

NextMmr ==
    \/ mmr_call
    \/ mmr_call_again
    \/ mmr_call_v1

SpecMmr == InitMmr /\ [][NextMmr]_vars

\* ================================== summarising, tagging and saving an entry
\* A text is the number of chunks _split_chunks cuts it into; 0 is the text that is
\* empty after strip().  The provider calls of one request are made at five sites;
\* failing holds the sites whose call raises in this request.
Texts == 0..MaxChunks
Sites == {"embed", "chunk", "synthesis", "candidates", "answer"}

\* src/llm._summarize_chunks: _split_chunks gives [text[:max_chars]] for a text
\* without paragraphs, the chunk calls are guarded, the synthesis call is not.
summarize_chunks_v1(text, failing) ==
    IF "synthesis" \in failing
    THEN [raised |-> "Exception", summary |-> None, calls |-> {"chat"}]
    ELSE [raised |-> None, summary |-> "summary", calls |-> {"chat"}]

\* infrastructure/llm._summarize_chunks: both calls are guarded; the synthesis call
\* is made also when there is no chunk, and falls back to synthesis_input[:300].
summarize_chunks_infra(text, failing) ==
    [raised |-> None,
     summary |-> IF "synthesis" \notin failing THEN "summary"
                 ELSE IF text = 0 THEN "" ELSE "truncated",
     calls |-> {"chat"}]

\* _llm_tag_candidates and _stat_tag_candidates: the provider's candidates, or []
\* when the call raises, and the tokens of the text.
tag_candidates(text, failing) ==
    (IF "candidates" \in failing THEN {} ELSE {"llm-tag"})
        \cup (IF text = 0 THEN {} ELSE {"stat-tag"})

\* src/llm.summarize_and_tag: embed_text calls the provider for every text, the
\* empty one included.
summarize_and_tag_v1(text, failing) ==
    LET summarized == summarize_chunks_v1(text, failing) IN
    IF summarized.raised # None
    THEN [raised |-> summarized.raised, summary |-> None, tags |-> {},
          calls |-> summarized.calls]
    ELSE [raised |-> None, summary |-> summarized.summary,
          tags |-> tag_candidates(text, failing),
          calls |-> summarized.calls \cup {"embed"}]

\* infrastructure/llm.summarize_and_tag: _cached_embed returns None for an empty
\* text before any call.
summarize_and_tag_infra(text, failing) ==
    LET summarized == summarize_chunks_infra(text, failing)
        candidates == tag_candidates(text, failing)
    IN [raised |-> None, summary |-> summarized.summary, tags |-> candidates,
        calls |-> summarized.calls
                    \cup (IF text # 0 \/ summarized.summary # "" \/ candidates # {}
                          THEN {"embed"} ELSE {})]

\* infrastructure/llm/summaries.summarize: llm_chat_structured per chunk and, with
\* more than one partial, once more to combine them (the bullets when that fails).
summarize(text, failing) ==
    LET partials == IF llm_chat_structured("chunk" \in failing) = None THEN 0 ELSE text IN
    [raised |-> None,
     summary |-> IF partials = 0 THEN ""
                 ELSE IF partials = 1 THEN "summary"
                 ELSE IF llm_chat_structured("synthesis" \in failing) = None THEN "bullets"
                 ELSE "summary",
     calls |-> IF text = 0 THEN {} ELSE {"chat"}]

\* The three summarisers as operations on a text: the result is kept in lastOp.
summarize_and_tag_call_v1(text, failing) ==
    /\ lastOp' = [op |-> "summarize_and_tag_v1", ok |-> TRUE, text |-> text,
                  failing |-> failing] @@ summarize_and_tag_v1(text, failing)
    /\ NoAnswer
    /\ UNCHANGED <<store, index, mmr, migrations>>

summarize_call(text, failing) ==
    /\ lastOp' = [op |-> "summarize", ok |-> TRUE, text |-> text,
                  failing |-> failing] @@ summarize(text, failing)
    /\ NoAnswer
    /\ UNCHANGED <<store, index, mmr, migrations>>

\* services/knowledge.KnowledgeService.save_entry: strip(), summarize_and_tag, then
\* upsert_entry, which embeds the text and returns None without an embedding.
save_entry(text, emb, failing) ==
    /\ Cardinality(DOMAIN index) < MaxVectors
    /\ LET summary_tags == summarize_and_tag_infra(text, failing)
           embedding_ == embed_text(text = 0, emb, "embed" \in failing)
       IN /\ index' = execute(embedding_, {}, {}, {})
          /\ lastOp' = [op |-> "save_entry", ok |-> embedding_ # NoVal, text |-> text,
                        failing |-> failing, blank |-> text = 0,
                        raised |-> summary_tags.raised,
                        summary |-> summary_tags.summary, tags |-> summary_tags.tags,
                        calls |-> summary_tags.calls
                                    \cup (IF text = 0 THEN {} ELSE {"embed"})
                                    \cup (IF embedding_ = NoVal THEN {} ELSE {"write"})]
    /\ NoAnswer
    /\ UNCHANGED <<store, mmr, migrations>>

Failures == {f \in SUBSET Sites : Cardinality(f) <= MaxFailing}

NextLlm ==
    \/ \E text \in Texts, failing \in Failures : summarize_and_tag_call_v1(text, failing)
    \/ \E text \in Texts, failing \in Failures : summarize_call(text, failing)
    \/ \E text \in Texts, emb \in Embeddings, failing \in Failures :
          save_entry(text, emb, failing)
    \/ \E blank \in BOOLEAN, failing \in Failures :
          knowledge_search(blank, embed_text(blank, Some(0), "embed" \in failing),
                           "answer" \in failing, MaxLimit, {})
    \/ \E emb \in Embeddings : create_note("published", emb, <<>>, {})
    \/ \E blank \in BOOLEAN, failing \in Failures :
          search_tab_render(blank, embed_text(blank, Some(0), "embed" \in failing),
                            "answer" \in failing, MaxLimit, None, {})

SpecLlm == Init /\ [][NextLlm]_vars

\* ================================================ a pool of published notes
\* More published notes than the max_candidates rows search_notes_by_similarity
\* reads for limit 1, each linked or not to the one entity of the filter.
PoolIds == 1..MaxPool

PoolEntity == [id |-> 1, entity_type |-> "app", canonical_value |-> "knox"]

InitPool ==
    /\ notes = PoolIds
    /\ status = [n \in PoolIds |-> "published"]
    /\ embedding \in [PoolIds -> Embeddings]
    /\ relations = {}
    /\ lastOp = [op |-> "init", ok |-> TRUE]
    /\ matches = <<>>
    /\ payload = <<>>
    /\ sources = <<>>
    /\ id_lookup = <<>>
    /\ entities = {PoolEntity}
    /\ \E linked \in SUBSET PoolIds :
          note_entities = {[note_id |-> n, entity_id |-> PoolEntity.id] : n \in linked}
    /\ tags = {}
    /\ note_tags = {}
    /\ index = <<>>
    /\ migrations = NoMigrations
    /\ mmr = NoRun

NextPool ==
    \/ \E limit \in 1..MaxLimit :
          search_tab_render(FALSE, Some(0), FALSE, limit, "app", {})
    \/ \E top_k \in 1..MaxLimit :
          chat_OLD(Some(0), {PoolEntity.id}, top_k, DefaultRelatedLimit)

SpecPool == InitPool /\ [][NextPool]_vars

\* ========================================== the relation_type of a relation
\* relation_type is a str parameter of create_relation and update_relation_type and
\* a String column: the values a caller may pass are the five of the vocabulary and
\* any other text, here "causes".
TypeInputs == RELATION_TYPES \cup {"causes"}

NextRel ==
    \/ create_note("published", Some(0), <<>>, {})
    \/ \E s, t \in NoteIds, ty \in TypeInputs : create_relation(s, t, ty)
    \/ \E rid \in RelIds \cup {MalformedId}, ty \in TypeInputs :
          update_relation_type(rid, ty)
    \/ \E rid \in RelIds \cup {MalformedId} : delete_relation(rid)

SpecRel == Init /\ [][NextRel]_vars

\* ============================================ the fields of a source entry
\* format_doc of the three assemblers, for the descriptive fields of the metadata.
\* A field of the metadata is absent (None), the empty string, or a text.
FieldValues == {None, "", "tekst"}

Metadatas == [topic : FieldValues, date : FieldValues,
              tags : FieldValues, summary : FieldValues]

\* metadata.get(key, ""): the default stands in for an absent key.
get(metadata, key) == IF metadata[key] = None THEN "" ELSE metadata[key]

\* One rendered line: the field it shows, its label and the value after the label.
Line(field, label, value) == [field |-> field, label |-> label, value |-> value]

\* OLD/llm-OLD.py: the Datum line is always part of the f-string; Tags and
\* Samenvatting are rendered when they are not empty.
format_doc_fields_OLD(metadata) ==
    <<Line("topic", "",
           IF get(metadata, "topic") = "" THEN "Onbekend onderwerp"
           ELSE get(metadata, "topic")),
      Line("date", "Datum", get(metadata, "date"))>>
    \o (IF get(metadata, "tags") # ""
        THEN <<Line("tags", "Tags", get(metadata, "tags"))>> ELSE <<>>)
    \o (IF get(metadata, "summary") # ""
        THEN <<Line("summary", "Samenvatting", get(metadata, "summary"))>> ELSE <<>>)

\* infrastructure/llm.py: Topic, Date, Tags and Summary are always rendered.
format_doc_fields_infra(metadata) ==
    <<Line("topic", "Topic", get(metadata, "topic")),
      Line("date", "Date", get(metadata, "date")),
      Line("tags", "Tags", get(metadata, "tags")),
      Line("summary", "Summary", get(metadata, "summary"))>>

\* infrastructure/llm/answering.py: topic defaults for an absent key only; the date
\* (created_at) and the summary are rendered when truthy; tags are not rendered.
format_doc_fields(metadata) ==
    <<Line("topic", "",
           IF metadata.topic = None THEN "Onbekend onderwerp" ELSE metadata.topic)>>
    \o (IF get(metadata, "date") # ""
        THEN <<Line("date", "Datum", get(metadata, "date"))>> ELSE <<>>)
    \o (IF get(metadata, "summary") # ""
        THEN <<Line("summary", "", get(metadata, "summary"))>> ELSE <<>>)

\* One call of format_doc on a match with the given metadata.
format_doc_call(version, metadata, lines) ==
    /\ lastOp' = [op |-> "format_doc", ok |-> TRUE, version |-> version,
                  metadata |-> metadata, lines |-> lines, raised |-> None]
    /\ UNCHANGED <<store, matches, payload, sources, id_lookup, index, mmr, migrations>>

NextDoc ==
    \/ \E metadata \in Metadatas :
          format_doc_call("OLD", metadata, format_doc_fields_OLD(metadata))
    \/ \E metadata \in Metadatas :
          format_doc_call("infra", metadata, format_doc_fields_infra(metadata))
    \/ \E metadata \in Metadatas :
          format_doc_call("answering", metadata, format_doc_fields(metadata))

SpecDoc == Init /\ [][NextDoc]_vars

\* ===================================================== the migration runner
\* infrastructure/migrations/runner.py.  migrations.sql is the content of
\* MIGRATIONS_DIR in sorted(glob("*.sql")) order: file f (its position stands for its
\* filename) with sql[f] statements.  A deployment adds a file with a later name.
\* migrations.schema_migrations holds the recorded filenames and migrations.executed
\* the committed statements <<file, statement>> in the order they were executed.
deploy_migration(statements) ==
    /\ Len(migrations.sql) < MaxFiles
    /\ migrations' = [migrations EXCEPT !.sql = Append(@, statements)]
    /\ lastOp' = [op |-> "deploy_migration", ok |-> TRUE]
    /\ UNCHANGED <<store, answer, index, mmr>>

\* "for path in sorted(...): if name in applied: continue"
Pending(m) ==
    SortedSeq({f \in 1..Len(m.sql) : f \notin m.schema_migrations})

\* "for statement in _iter_statements(sql): conn.exec_driver_sql(statement)" from
\* statement s on; the statement named by fail raises.
RECURSIVE exec_statements(_, _, _, _, _)
exec_statements(conn, f, s, n, fail) ==
    IF s > n THEN conn
    ELSE IF fail = Some(<<f, s>>) THEN [conn EXCEPT !.raised = TRUE]
    ELSE exec_statements([conn EXCEPT !.executed = Append(@, <<f, s>>)], f, s + 1, n, fail)

\* The loop over the pending files on the connection of the transaction: the
\* statements of a file, then the INSERT of its filename.  An exception ends it.
RECURSIVE apply_files(_, _, _, _)
apply_files(conn, pending, sql, fail) ==
    IF pending = <<>> THEN conn
    ELSE LET done == exec_statements(conn, pending[1], 1, sql[pending[1]], fail) IN
         IF done.raised THEN done
         ELSE apply_files([done EXCEPT !.schema_migrations = @ \cup {pending[1]}],
                          Tail(pending), sql, fail)

\* "with engine.begin() as conn": the block commits when it ends and rolls back when
\* an exception leaves it.
begin(m, fail) ==
    apply_files([schema_migrations |-> m.schema_migrations, executed |-> m.executed,
                 raised |-> FALSE],
                Pending(m), m.sql, fail)

run_transaction_AutoCommit(m, fail) ==
    LET conn == begin(m, fail) IN
    [m EXCEPT !.schema_migrations = conn.schema_migrations, !.executed = conn.executed]

run_transaction(m, fail) ==
    LET conn == begin(m, fail) IN
    IF conn.raised THEN m
    ELSE [m EXCEPT !.schema_migrations = conn.schema_migrations,
                   !.executed = conn.executed]

\* core/db_client.init_db: one run of run_pending_migrations.  ran counts the
\* statements the run executed before it ended.
run_pending_migrations(fail) ==
    LET conn == begin(migrations, fail) IN
    /\ migrations' = run_transaction(migrations, fail)
    /\ lastOp' = [op |-> "run_pending_migrations", ok |-> ~conn.raised,
                  ran |-> Len(conn.executed) - Len(migrations.executed)]
    /\ UNCHANGED <<store, answer, index, mmr>>

\* The statement that raises during a run, if any.
StatementFailures ==
    {NoVal} \cup {Some(<<f, s>>) : f \in 1..MaxFiles, s \in 1..MaxStatements}

NextMig ==
    \/ \E statements \in 1..MaxStatements : deploy_migration(statements)
    \/ \E fail \in StatementFailures : run_pending_migrations(fail)

SpecMig == Init /\ [][NextMig]_vars

\* ============================================================== properties
IsSearch == lastOp.op \in {"search_tab_render", "chat_OLD"} /\ lastOp.ok

\* C1: a note that is the target of a supersedes relation never appears among the
\* primary (scored) results of a similarity search, whatever its score and status.
C1_SupersededNeverPrimary ==
    \A i \in 1..Len(matches) :
        matches[i].relation = None => ~Superseded(matches[i].id)

\* C2: every primary (scored) result of a similarity search is a note whose status
\* is published when the query runs; a draft or archived note is never a primary match.
C2_PrimaryPublished ==
    \A i \in 1..Len(matches) :
        matches[i].relation = None => status[matches[i].id] = "published"

\* C2's case: a search returned a primary match while a note with an embedding that
\* is not published was in the store.
C2_Witness ==
    /\ IsSearch
    /\ \E i \in 1..Len(matches) : matches[i].relation = None
    /\ \E n \in notes : embedding[n] # NoVal /\ status[n] # "published"

\* C3: no stored relation has source = target, no two stored relations share the
\* ordered (source, target) pair, and an attempt to create a self-relation or a
\* second relation on a stored pair fails and writes nothing.
NoSelfNoDuplicate ==
    /\ \A r \in relations : r.source_note_id # r.target_note_id
    /\ \A r1, r2 \in relations :
          (r1.source_note_id = r2.source_note_id /\ r1.target_note_id = r2.target_note_id)
              => r1 = r2

PairStored(s, t) ==
    \E r \in relations : r.source_note_id = s /\ r.target_note_id = t

C3_NoSelfNoDuplicate ==
    /\ []NoSelfNoDuplicate
    /\ [][\A s, t \in NoteIds, ty \in RELATION_TYPES :
            (create_relation(s, t, ty) /\ (s = t \/ PairStored(s, t)))
                => (relations' = relations /\ ~lastOp'.ok)]_vars

\* C3's case: with every note id in use and a relation stored, a create_relation
\* was rejected (a self-relation or a second relation on a stored pair).
C3_Witness ==
    /\ lastOp.op = "create_relation"
    /\ ~lastOp.ok
    /\ notes = NoteIds
    /\ relations # {}

\* C4: every note that is the target of a supersedes relation has status archived.
C4_SupersededArchived ==
    \A n \in notes : Superseded(n) => status[n] = "archived"

\* C5: the status label of every source entry is VERVANGEN when the note has a
\* superseded_by entry or its status is archived, otherwise CONCEPT when its status
\* is draft, otherwise ACTUEEL.  An entry of the vector index has no status of its
\* own; only its superseded_by entry decides.
ExpectedLabel(has_superseded_by, own_status) ==
    IF has_superseded_by \/ own_status = "archived" THEN "VERVANGEN"
    ELSE IF own_status = "draft" THEN "CONCEPT"
    ELSE "ACTUEEL"

C5_StatusLabel ==
    /\ lastOp.op = "chat_OLD" =>
          \A i \in 1..Len(payload) :
             sources[i].status =
                ExpectedLabel(payload[i].metadata.rel["superseded_by"] # <<>>,
                              payload[i].metadata.status)
    /\ lastOp.op = "knowledge_search" =>
          \A i \in 1..Len(payload) :
             sources[i].status =
                ExpectedLabel(payload[i].metadata.superseded_by # {}, None)

\* C6: the source entry of the match at position i is numbered i, the entries keep
\* the order of the match list, and the id -> citation lookup maps the id of the
\* match at position i to i.
C6_CitationByPosition ==
    /\ Len(sources) = Len(payload)
    /\ \A i \in 1..Len(sources) :
          /\ sources[i].num = i
          /\ sources[i].id = payload[i].id
          /\ id_lookup[payload[i].id] = i

\* C7: every related note id of a match is cited in the clause of its relation: by
\* the citation number of that note when the note is in the match list, and by the
\* placeholder [?] when it is not.
ExpectedRef(x) ==
    IF x \in MatchIds(payload) THEN Cite(id_lookup[x]) ELSE Placeholder

C7_RelatedCitedOrPlaceholder ==
    /\ lastOp.op = "chat_OLD" =>
          \A i \in 1..Len(payload) :
             \A k \in 1..Len(relation_templates) :
                LET key == relation_templates[k]
                    raw == IF key \in RelKeys THEN payload[i].metadata.rel[key] ELSE <<>>
                IN raw # <<>> =>
                      \E c \in 1..Len(sources[i].clauses) :
                         /\ sources[i].clauses[c].key = key
                         /\ sources[i].clauses[c].refs =
                               [j \in 1..Len(raw) |-> ExpectedRef(raw[j])]
    /\ lastOp.op = "search_tab_render" =>
          \A i \in 1..Len(payload) :
             \A e \in payload[i].metadata.relations :
                \E c \in sources[i].clauses :
                   /\ c.key = e.relation_type
                   /\ c.direction = e.direction
                   /\ c.other_id = e.other_id
                   /\ c.ref = ExpectedRef(e.other_id)

\* C8: every expanded match is the target of an outbound relation of type supports,
\* contradicts or related whose source is a seed (primary) match of the same result.
\* In the vector index the outbound related relation of an entry is its related_to
\* list.
OutboundSoft(s, t) ==
    \/ \E r \in relations :
          /\ r.source_note_id = s
          /\ r.target_note_id = t
          /\ r.relation_type \in SEARCH_RELATED_TYPES
    \/ lastOp.op = "knowledge_search" /\ s \in DOMAIN index /\ t \in index[s].related_to

C8_ExpandedViaSoftOutbound ==
    \A i \in 1..Len(matches) :
        matches[i].relation # None =>
            /\ matches[i].relation \in SEARCH_RELATED_TYPES \cup {"related_to"}
            /\ \E j \in 1..Len(matches) :
                  /\ matches[j].relation = None
                  /\ OutboundSoft(matches[j].id, matches[i].id)

\* C9: in the search result and in the payload built from it, an expanded match
\* carries the relation type that produced it and no score, and a primary match
\* carries no relation and a score.
ProducedBy(ms, i) ==
    \E r \in relations, j \in 1..Len(ms) :
        /\ ms[j].relation = None
        /\ r.source_note_id = ms[j].id
        /\ r.target_note_id = ms[i].id
        /\ r.relation_type = ms[i].relation

ScoreIffNoRelation(ms) ==
    \A i \in 1..Len(ms) :
        /\ (ms[i].score = NoVal) <=> (ms[i].relation # None)
        /\ ms[i].relation # None => ProducedBy(ms, i)

C9_ScoreIffNoRelation ==
    /\ ScoreIffNoRelation(matches)
    /\ ScoreIffNoRelation(payload)

\* C10: _mmr returns the index sequence of the reference greedy MMR: min(k, n)
\* pairwise distinct indices (none when n = 0 or k <= 0), the first of maximum
\* relevance, each later one maximising lambda * relevance - (1 - lambda) * (the
\* greatest similarity to an index picked before) among the indices not yet picked,
\* ties going to the lowest index; and a repeated call returns the same sequence.
RefScore(i, picked) ==
    mmr.lambda_ * mmr.relevance[i]
        - (10 - mmr.lambda_)
            * CHOOSE d \in CosVals :
                /\ \E j \in picked : similarity(mmr.sim, i, j) = d
                /\ \A j \in picked : similarity(mmr.sim, i, j) <= d

IsReferenceMMR(seq) ==
    LET n == Cardinality(DOMAIN mmr.relevance)
        picked(p) == {seq[r] : r \in 1..(p - 1)}
        unpicked(p) == (0..(n - 1)) \ picked(p)
    IN /\ Len(seq) = IF mmr.k <= 0 THEN 0 ELSE Min(mmr.k, n)
       /\ \A p, r \in 1..Len(seq) : p # r => seq[p] # seq[r]
       /\ \A p \in 1..Len(seq) : seq[p] \in 0..(n - 1)
       /\ Len(seq) >= 1 =>
             \A i \in 0..(n - 1) :
                /\ mmr.relevance[i] <= mmr.relevance[seq[1]]
                /\ mmr.relevance[i] = mmr.relevance[seq[1]] => seq[1] <= i
       /\ \A p \in 2..Len(seq) :
             \A i \in unpicked(p) :
                /\ RefScore(i, picked(p)) <= RefScore(seq[p], picked(p))
                /\ RefScore(i, picked(p)) = RefScore(seq[p], picked(p)) => seq[p] <= i

C10_MmrIsGreedyReference ==
    /\ mmr.pc \in {"called", "repeated"} => IsReferenceMMR(mmr.first[1])
    /\ mmr.pc = "repeated" => mmr.second = mmr.first

\* C10's case: a repeated call over three candidates with k = 2, where two unpicked
\* candidates tie for the second pick and the tie is not one of relevance alone.
C10_Witness ==
    /\ mmr.pc = "repeated"
    /\ Cardinality(DOMAIN mmr.relevance) = 3
    /\ mmr.k = 2
    /\ mmr.lambda_ = 5
    /\ Len(mmr.first[1]) = 2
    /\ \E i \in (0..2) \ Range(mmr.first[1]) :
          /\ RefScore(i, {mmr.first[1][1]}) = RefScore(mmr.first[1][2], {mmr.first[1][1]})
          /\ mmr.relevance[i] # mmr.relevance[mmr.first[1][2]]


\* C11: with lambda = 0 and at least two candidates left after the first pick, the
\* second pick of _mmr is not a candidate of greatest similarity to the first pick
\* whenever some unpicked candidate is strictly less similar to the first pick.
SecondNotMostSimilar(seq) ==
    LET n == Cardinality(DOMAIN mmr.relevance)
        unpicked == (0..(n - 1)) \ {seq[1]}
    IN (/\ mmr.lambda_ = 0
        /\ Len(seq) >= 2
        /\ Cardinality(unpicked) >= 2
        /\ \E i, j \in unpicked :
              similarity(mmr.sim, i, seq[1]) < similarity(mmr.sim, j, seq[1]))
       => \E i \in unpicked :
             similarity(mmr.sim, seq[2], seq[1]) < similarity(mmr.sim, i, seq[1])

C11_SecondPickNotMostSimilar ==
    /\ mmr.pc \in {"called", "repeated"} => SecondNotMostSimilar(mmr.first[1])
    /\ mmr.pc = "called_v1" => SecondNotMostSimilar(mmr.first_v1[1])
\* A note that has an entity of type T, and whose type-T entities carry every value
\* of V in lower case.
HasEveryValue(n, T, V) ==
    LET mine == {e \in entities : /\ [note_id |-> n, entity_id |-> e.id] \in note_entities
                                  /\ e.entity_type = T}
    IN /\ mine # {}
       /\ {lower(v) : v \in V} \subseteq {lower(e.canonical_value) : e \in mine}

FilterHolds_services ==
    (lastOp.op = "search_tab_render" /\ lastOp.ok /\ lastOp.entity_type # None)
        => \A i \in 1..Len(matches) :
              HasEveryValue(matches[i].id, lastOp.entity_type, lastOp.entity_values)

\* The filter of the older search is a list of entity ids: the entities of type T
\* with the requested values.
FilterHolds_OLD ==
    (lastOp.op = "chat_OLD" /\ lastOp.ok /\ lastOp.entity_ids # {})
        => LET chosen == {e \in entities : e.id \in lastOp.entity_ids} IN
           \A T \in EntTypes :
              (\A e \in chosen : e.entity_type = T)
                 => \A i \in 1..Len(matches) :
                       matches[i].relation = None
                          => HasEveryValue(matches[i].id, T,
                                           {e.canonical_value : e \in chosen})

\* C12: with an entity filter of type T and values V, similarity search returns a
\* note only if it has an entity of type T and its type-T entities carry every
\* value of V; with T alone, only notes with an entity of type T.
C12_EntityFilterAllValues == FilterHolds_services /\ FilterHolds_OLD

NoEmbeddings == \A n \in notes : embedding[n] = NoVal

EmptyNotError_similarity ==
    \A limit \in 1..MaxLimit, q \in Queries \cup {NoVal} :
        (q = NoVal \/ NoEmbeddings)
            => search_notes_by_similarity(q, limit, None, {}) = {<<>>}

EmptyNotError_question ==
    (/\ lastOp.op = "search_tab_render" /\ ~lastOp.blank
     /\ (~lastOp.embedded \/ NoEmbeddings))
        => lastOp.raised = None /\ matches = <<>>

EmptyNotError_VectorStore ==
    (/\ lastOp.op = "knowledge_search" /\ ~lastOp.blank
     /\ (~lastOp.embedded \/ index = <<>>))
        => lastOp.raised = None /\ matches = <<>>

\* C13: similarity search returns an empty list and raises no error when no note
\* has an embedding or when the query embedding is unavailable, at every search
\* entry point.
C13_EmptyNotError ==
    /\ EmptyNotError_similarity
    /\ EmptyNotError_question
    /\ EmptyNotError_VectorStore

BlankRejected_question ==
    (lastOp.op \in {"search_tab_render", "knowledge_search"} /\ lastOp.blank)
        => lastOp.calls = {} /\ matches = <<>>

BlankRejected_content ==
    (lastOp.op = "save_entry" /\ lastOp.blank) => lastOp.calls = {}

MalformedRejected ==
    (lastOp.op \in {"update_relation_type", "delete_relation"} /\ lastOp.malformed)
        => lastOp.calls = {} /\ lastOp.raised = "ValueError"

\* C14: an empty or whitespace-only question or note content, and a malformed
\* relation id, end the operation before any embedding call, chat call or store
\* query or write is made.
C14_InputErrorsBeforeCalls ==
    /\ BlankRejected_question
    /\ BlankRejected_content
    /\ MalformedRejected

Contained_summarising ==
    lastOp.op \in {"summarize_and_tag_v1", "summarize", "save_entry"}
        => lastOp.raised = None

Contained_answering ==
    (lastOp.op \in {"search_tab_render", "knowledge_search"} /\ matches # <<>>)
        => lastOp.raised = None /\ lastOp.answer \in {"", "answer"}

\* C15: a failure of the embedding, chat or keyword-candidate provider never leaves
\* answering, summarising or tagging as an exception: the result is empty and the
\* request goes on, so matches are shown without an answer.
C15_ProviderFailureContained == Contained_summarising /\ Contained_answering

IsRelationCreate == lastOp'.op \in {"create_relation", "create_note_OLD"}

RejectedLeavesStore ==
    (IsRelationCreate /\ ~lastOp'.ok) => UNCHANGED <<notes, status, relations>>

SupersedesWithArchival ==
    IsRelationCreate
        => \A r \in relations' \ relations :
              r.relation_type = "supersedes" => status'[r.target_note_id] = "archived"

RejectedLeavesStoreAlways == [][RejectedLeavesStore]_vars

\* C16: a create of a relation (alone or within a note creation) that is rejected
\* as a self-relation, a duplicate pair or for a missing note leaves notes,
\* statuses and relations as they were; a stored supersedes relation comes with
\* the archival of its target.
C16_RelationMutationsAtomic == [][RejectedLeavesStore /\ SupersedesWithArchival]_vars

IsQuery == lastOp'.op \in {"search_tab_render", "chat_OLD", "suggest_relations"}

\* C17: similarity search, relation expansion, the relation map and context
\* assembly are read-only: a query step leaves notes, statuses, embeddings,
\* relations, tags, entities and their links as they were, so no relation is
\* created by searching.
C17_SearchReadOnly ==
    [][IsQuery => /\ UNCHANGED <<notes, status, embedding, relations>>
                  /\ UNCHANGED <<entities, note_entities, tags, note_tags>>]_vars

C17_Witness ==
    /\ lastOp.op = "chat_OLD"
    /\ \E i \in 1..Len(matches) : matches[i].relation # None
    /\ relations # {} /\ entities # {} /\ tags # {}

\* C18: after delete_note(N) no relation with N as source or target, no embedding
\* of N and no entity or tag link of N remains: every stored relation, embedding
\* and link refers to an existing note.
C18_NoDanglingRows ==
    /\ \A r \in relations : r.source_note_id \in notes /\ r.target_note_id \in notes
    /\ \A n \in NoteIds \ notes : embedding[n] = NoVal
    /\ \A l \in note_entities : l.note_id \in notes
    /\ \A l \in note_tags : l.note_id \in notes

C18_Witness ==
    /\ lastOp.op = "delete_note" /\ lastOp.ok
    /\ notes # {}
    /\ note_entities # {} /\ note_tags # {}

EntityKey(e) == <<lower(e.canonical_value), e.entity_type>>

NoDuplicateEntities ==
    \A e1, e2 \in entities : EntityKey(e1) = EntityKey(e2) => e1 = e2

\* Every extracted entity of the last creation is stored under its own key.
KeptDistinct(op) ==
    (lastOp.op = op /\ lastOp.ok)
        => \A i \in 1..Len(lastOp.ents) :
              \E e \in entities : EntityKey(e) = EntityKey(lastOp.ents[i])

\* C19: no two stored entities have the same lower-cased canonical_value and
\* entity_type; an extracted entity equal to a stored one on both is linked to it,
\* and entities that differ in entity_type are kept apart.
C19_EntitiesDeduplicated ==
    /\ NoDuplicateEntities
    /\ KeptDistinct("create_note")
    /\ KeptDistinct("ensure_entities")

Primary == {i \in 1..Len(matches) : matches[i].relation = None}
Expanded == {i \in 1..Len(matches) : matches[i].relation # None}

\* C20: the number of expanded matches appended to a search result never exceeds
\* related_limit times the number of seed matches.
C20_ExpansionCapped ==
    (lastOp.op = "chat_OLD" /\ lastOp.ok)
        => Cardinality(Expanded) <= lastOp.related_limit * Cardinality(Primary)

\* The cap cuts: a soft relation of a seed leads to a note that is not appended.
C20_Witness ==
    /\ lastOp.op = "chat_OLD" /\ lastOp.ok
    /\ Cardinality(Expanded) = lastOp.related_limit * Cardinality(Primary)
    /\ \E r \in relations :
          /\ r.relation_type \in SEARCH_RELATED_TYPES
          /\ \E i \in Primary : matches[i].id = r.source_note_id
          /\ \A i \in Expanded : matches[i].id # r.target_note_id

PrimaryIds == {matches[i].id : i \in Primary}

\* The type of the first soft relation of the scan that leads to target.
FirstSoftType(scan, target) ==
    LET hits == {j \in 1..Len(scan) : /\ scan[j].target_note_id = target
                                      /\ scan[j].relation_type \in SEARCH_RELATED_TYPES}
    IN scan[Least(hits)].relation_type

FirstWins(scan) ==
    LET rel == related_ids(scan, <<>>) IN
    /\ \A i, j \in 1..Len(rel) : rel[i].id = rel[j].id => i = j
    /\ \A i \in 1..Len(rel) : rel[i].type = FirstSoftType(scan, rel[i].id)

\* C21: a target note appears at most once among the expanded matches, and its
\* label is the type of the first soft relation met while the outbound relations
\* of the seeds are scanned, in whatever order the seeds are scanned.
C21_ExpandedOnceFirstTypeWins ==
    (lastOp.op = "chat_OLD" /\ lastOp.ok)
        => /\ \A i, j \in Expanded : matches[i].id = matches[j].id => i = j
           /\ \A scan \in Scans(PrimaryIds) : FirstWins(scan)
           /\ \E scan \in Scans(PrimaryIds) :
                 \A i \in Expanded : matches[i].relation = FirstSoftType(scan, matches[i].id)

\* A target reached from two seeds through soft relations of different types.
C21_Witness ==
    /\ lastOp.op = "chat_OLD" /\ lastOp.ok
    /\ \E i \in Expanded : \E r1, r2 \in relations :
          /\ r1.target_note_id = matches[i].id /\ r2.target_note_id = matches[i].id
          /\ r1.source_note_id \in PrimaryIds /\ r2.source_note_id \in PrimaryIds
          /\ r1.relation_type \in SEARCH_RELATED_TYPES
          /\ r2.relation_type \in SEARCH_RELATED_TYPES
          /\ r1.relation_type # r2.relation_type


\* Note.updated_at as a logical clock: notes are created in id order and a note
\* stays untouched while it is published, so a later note has a later updated_at.
updated_at(n) == n

\* The primary rows are in ascending distance for the query vector q, and of two
\* rows at the same distance the one updated more recently comes first.
OrderedWithTieBreak(q, scoring(_)) ==
    /\ \A i \in Primary :
          matches[i].score = scoring(cosine_distance(embedding[matches[i].id], q))
    /\ \A i, j \in Primary :
          i < j =>
             LET di == cosine_distance(embedding[matches[i].id], q)
                 dj == cosine_distance(embedding[matches[j].id], q)
             IN \/ di < dj
                \/ di = dj /\ updated_at(matches[i].id) > updated_at(matches[j].id)

raw_score(distance) == Some(1 - distance)

Ordered_services ==
    (lastOp.op = "search_tab_render" /\ lastOp.ok)
        => \E q \in Queries : OrderedWithTieBreak(q, raw_score)

Ordered_OLD ==
    (lastOp.op = "chat_OLD" /\ lastOp.ok)
        => \E q \in Queries : OrderedWithTieBreak(q, distance_to_score)

\* C22: the primary results of a search are in ascending order of cosine distance
\* to the query vector, and results at equal distance are ordered by the more
\* recent updated_at first.
C22_PrimaryOrderTieBreak == Ordered_services /\ Ordered_OLD


\* 1 - distance clamped into [0, 1].
clamped_score(distance) == Some(Max(0, Min(1, 1 - distance)))

ScoresClamped ==
    /\ \A i \in Primary : matches[i].score # NoVal /\ matches[i].score[1] \in 0..1
    /\ \E q \in Queries :
          \A i \in Primary :
             matches[i].score = clamped_score(cosine_distance(embedding[matches[i].id], q))

Clamped_services == (lastOp.op = "search_tab_render" /\ lastOp.ok) => ScoresClamped

Clamped_OLD == (lastOp.op = "chat_OLD" /\ lastOp.ok) => ScoresClamped

\* C23: the score of every primary search result is 1 minus the cosine distance,
\* clamped into [0, 1]: it is never negative and never above 1.
C23_ScoreClamped == Clamped_services /\ Clamped_OLD


\* The primary matches of the response, in order.
PrimarySeq == SelectSeq(matches, LAMBDA m : m.relation = None)

ExpandedIds(ms) == {ms[i].id : i \in {j \in 1..Len(ms) : ms[j].relation # None}}

\* Whatever fetches fail, the response starts with the primary matches and holds
\* the targets of the failure-free expansion except the failing ones.
FailedFetchSkipped(down) ==
    LET out == augment(PrimarySeq, down)
        all == augment(PrimarySeq, {})
    IN /\ SubSeq(out, 1, Len(PrimarySeq)) = PrimarySeq
       /\ ExpandedIds(out) = ExpandedIds(all) \ down

\* C24: a relation target that cannot be fetched during expansion is skipped and
\* the other targets are still fetched; a failing fetch neither ends the expansion
\* nor removes a primary match.
C24_FailedFetchSkipped ==
    (lastOp.op = "knowledge_search" /\ lastOp.ok)
        => /\ \A down \in FetchFailures : FailedFetchSkipped(down)
           /\ \E down \in FetchFailures : matches = augment(PrimarySeq, down)

\* The fetch of one target failed and another target was fetched after it.
C24_Witness ==
    /\ lastOp.op = "knowledge_search" /\ lastOp.ok
    /\ \E down \in FetchFailures :
          /\ matches = augment(PrimarySeq, down)
          /\ down \cap ExpandedIds(augment(PrimarySeq, {})) # {}
          /\ \E i \in Expanded : \A x \in down : matches[i].id > x


OptionalFields == {"summary", "tags", "date"}

\* A missing or empty optional field has no line in the entry, and the call ends
\* without an exception.
OmittedWhenEmpty(version) ==
    (lastOp.op = "format_doc" /\ lastOp.version = version)
        => /\ lastOp.raised = None
           /\ \A f \in OptionalFields :
                 lastOp.metadata[f] \in {None, ""}
                    => \A i \in 1..Len(lastOp.lines) : lastOp.lines[i].field # f

Omitted_OLD == OmittedWhenEmpty("OLD")

Omitted_infra == OmittedWhenEmpty("infra")

Omitted_answering == OmittedWhenEmpty("answering")

\* C25: a source entry whose summary, tags or date is missing or empty holds no
\* line or label for that field, and the assembler does not raise for it.
C25_EmptyFieldsOmitted == Omitted_OLD /\ Omitted_infra /\ Omitted_answering


\* C26: after any sequence of create_relation, update_relation_type and
\* delete_relation calls the relation_type of every stored relation is one of
\* supports, contradicts, supersedes, related, duplicate.
C26_RelationTypeInVocabulary ==
    \A r \in relations : r.relation_type \in RELATION_TYPES


\* The notes that supersede n.
Superseders(n) ==
    {r.source_note_id : r \in {x \in relations : /\ x.relation_type = "supersedes"
                                                 /\ x.target_note_id = n}}

\* C27: every note of a search result, seed or expanded, that is the target of a
\* supersedes relation has a superseded_by entry in its relation map listing all
\* the notes that supersede it, sorted and without duplicates, whether or not
\* those notes are in the result.
C27_SupersededByComplete ==
    (lastOp.op = "chat_OLD" /\ lastOp.ok)
        => \A i \in 1..Len(matches) :
              Superseded(matches[i].id)
                 => matches[i].relations["superseded_by"]
                       = SortedSeq(Superseders(matches[i].id))


NoRepeatedId == \A i, j \in 1..Len(matches) : matches[i].id = matches[j].id => i = j

NoRepeatedId_OLD == (lastOp.op = "chat_OLD" /\ lastOp.ok) => NoRepeatedId

NoRepeatedId_infra == (lastOp.op = "knowledge_search" /\ lastOp.ok) => NoRepeatedId

\* C28: no note id appears more than once in the list a search returns: a seed that
\* is the target of a soft relation of another seed is not appended again, and a
\* note linked to several entities of the filter appears once among the primary
\* matches.
C28_NoRepeatedId == NoRepeatedId_OLD /\ NoRepeatedId_infra


\* The notes a search with the given filter may return as primary matches.
Eligible_services(entity_type, entity_values) ==
    {n \in Candidates : passes_entity_filter(n, entity_type, entity_values)}

Eligible_OLD(entity_filter_ids) ==
    {n \in Candidates_OLD :
        entity_filter_ids # {} =>
           \E e \in entity_filter_ids : [note_id |-> n, entity_id |-> e] \in note_entities}

\* The primary matches are min(L, m) distinct eligible notes, none farther from the
\* query vector q than an eligible note that was left out.
NearestEligible(eligible, L, q) ==
    LET ids == {matches[i].id : i \in Primary} IN
    /\ Cardinality(Primary) = Min(L, Cardinality(eligible))
    /\ \A i, j \in Primary : matches[i].id = matches[j].id => i = j
    /\ ids \subseteq eligible
    /\ \A n \in eligible \ ids : \A r \in ids :
          cosine_distance(embedding[r], q) <= cosine_distance(embedding[n], q)

Nearest_services ==
    (lastOp.op = "search_tab_render" /\ lastOp.ok)
        => \E L \in 1..MaxLimit, q \in Queries :
              NearestEligible(Eligible_services(lastOp.entity_type, lastOp.entity_values),
                              L, q)

Nearest_OLD ==
    (lastOp.op = "chat_OLD" /\ lastOp.ok)
        => \E L \in 1..MaxLimit, q \in Queries :
              NearestEligible(Eligible_OLD(lastOp.entity_ids), L, q)

\* C29: a search with result count L returns exactly min(L, m) primary results,
\* m being the number of published notes with an embedding that satisfy the
\* entity filter, and they are the nearest such notes.
C29_NearestEligibleReturned == Nearest_services /\ Nearest_OLD


\* The committed statements are in ascending order of file and statement, so none
\* is committed twice.
ExecutedAscending ==
    \A i, j \in 1..Len(migrations.executed) :
        i < j => LET a == migrations.executed[i]
                     b == migrations.executed[j]
                 IN a[1] < b[1] \/ (a[1] = b[1] /\ a[2] < b[2])

\* A filename is recorded exactly when all statements of the file are committed,
\* and no statement of an unrecorded file is committed.
RecordedIffCommitted ==
    \A f \in 1..Len(migrations.sql) :
        /\ f \in migrations.schema_migrations
              <=> \A s \in 1..migrations.sql[f] : <<f, s>> \in Range(migrations.executed)
        /\ f \notin migrations.schema_migrations
              => \A s \in 1..migrations.sql[f] : <<f, s>> \notin Range(migrations.executed)

FailingRunCommitsNothing ==
    (lastOp'.op = "run_pending_migrations" /\ ~lastOp'.ok) => migrations' = migrations

\* C30: across any sequence of run_pending_migrations runs, failing ones included,
\* the statements of a migration file are applied at most once, files are applied
\* in ascending filename order, a filename is recorded in schema_migrations exactly
\* when all statements of the file are committed, and a failing run commits
\* neither statements nor records.
C30_MigrationsOnceInOrder ==
    /\ [](ExecutedAscending /\ RecordedIffCommitted)
    /\ [][FailingRunCommitsNothing]_vars

\* A run that failed after it had executed statements, with an earlier file
\* recorded and a later one still pending.
C30_Witness ==
    /\ lastOp.op = "run_pending_migrations" /\ ~lastOp.ok
    /\ lastOp.ran > 0
    /\ migrations.schema_migrations # {}
    /\ Pending(migrations) # <<>>

====
